---- MODULE Spec2Model ----
(***************************************************************************)
(* Telims: the passphrase-protected script vault (src/lib/db.ts), its      *)
(* cipher (CryptoService) and the unlock screen that drives it.            *)
(*                                                                         *)
(* The persistent state is the IndexedDB settings and scripts stores and   *)
(* the localStorage slot telims_session_expiry.  The volatile state is the *)
(* DatabaseService singleton and the timers and window listeners it        *)
(* created; a page reload discards the volatile state and keeps the rest.  *)
(* Every async method is cut at its awaits: one action per resumption.     *)
(***************************************************************************)
EXTENDS Integers, Sequences, FiniteSets, TLC

\* ------------------------------------------------------------------ bounds
\* First-time setups that draw a fresh random salt.
MaxSalts == 2
\* Session timers (setInterval plus the focus/blur listeners) alive at once.
MaxTimers == 2
\* Jumps of the wall clock.
MaxAdvances == 3
\* Distinct AES-GCM nonces getRandomValues can return.
MaxIV == 1
\* Scripts ever saved (each crypto.randomUUID() is a fresh identifier).
MaxScripts == 2
\* Jumps of the wall clock while script operations are followed.
MaxScriptAdvances == 1
\* Jumps of the wall clock while settings updates are followed.
MaxSettingsAdvances == 1
\* Code units of a plaintext handed to encryptWithKey directly.
MaxTextLength == 2
\* Jumps of the wall clock while the StorageProvider is followed.
MaxProviderAdvances == 1
\* Calls of updateScriptSetting followed in one teleprompter.
MaxSettingChanges == 2
\* Calls of startListening followed in one page.
MaxVoiceCalls == 2

\* ------------------------------------------------------- program constants
\* setInterval period of the session check, in ms.
CheckPeriod == 60000
\* handleInactivity: const inactivityTimeout = 30 * 60 * 1000.
InactivityTimeout == 30 * 60 * 1000
\* updateSessionExpiry: const sessionTimeout = 2 * 60 * 60 * 1000.
SessionTimeout == 2 * 60 * 60 * 1000
\* validatePassphraseStrength: passphrase.length < 12.
MinPassphraseLength == 12

\* JavaScript null, and a record or slot that is not there.
Null == << >>
Absent == << >>
\* A JavaScript string is the sequence of its UTF-16 code units.
\* The marker createValidationToken encrypts and validatePassphrase expects.
Marker == <<"t", "e", "l", "i", "m", "s", "_", "v", "a", "l", "i", "d">>
\* What decryptWithKey throws: new Error('Invalid key or corrupted data').
DecryptError == "Invalid key or corrupted data"
\* What atob throws on a text that is not base64: a DOMException.
InvalidCharacterError == "InvalidCharacterError"

\* A passphrase is its text, its length and the character classes it holds:
\* all that validatePassphraseStrength and deriveKey read of it.
AllClasses == {"lower", "upper", "digit", "symbol"}
Passphrases ==
    { [text |-> "Str0ng!Passw0rd123", len |-> 18, classes |-> AllClasses],
      [text |-> "WrongPass!123", len |-> 13, classes |-> AllClasses],
      [text |-> "short", len |-> 5, classes |-> {"lower"}] }

\* What saveScript is given: a Script without id, createdAt and updatedAt.
\* fontSize stands for the presentation fields, which are all stored as given.
NewScripts ==
    { [title |-> "Talk", content |-> <<"A">>, fontSize |-> 48],
      [title |-> "Talk", content |-> <<"B">>, fontSize |-> 48] }
\* What updateScript is given: a Partial<Script>, which may name any field.
Updates == { [content |-> <<"B">>], [id |-> 1] }
\* The errors the DatabaseService throws.
NotUnlocked == "Database not unlocked"
NotFound == "Script not found"
StorageError == "request.error"

\* What updateSettings is given: a Partial<Settings>.  defaultFontSize
\* stands for the four presentation defaults, which are stored alike.
SettingsUpdates ==
    { [sessionTimeout |-> 300000], [sessionTimeout |-> 60000],
      [inactivityTimeout |-> 300000], [inactivityTimeout |-> 7260000],
      [defaultFontSize |-> 64] }
\* What the settings form holds on submit, in minutes: its number inputs
\* carry min 5 and max 480 (session), min 5 and max 120 (inactivity).
SettingsFormValues ==
    { [defaultFontSize |-> 48, sessionTimeout |-> 5, inactivityTimeout |-> 120],
      [defaultFontSize |-> 48, sessionTimeout |-> 480, inactivityTimeout |-> 5] }

\* The wall clock jumps by one of the three periods the code schedules with.
Durations == {CheckPeriod, InactivityTimeout, SessionTimeout}

\* ---------------------------------------------------------- pure functions
\* validatePassphraseStrength(passphrase).isValid: errors.length === 0.
validatePassphraseStrength(passphrase) ==
    LET errors ==
            (IF passphrase.len < MinPassphraseLength THEN {"length"} ELSE {})
            \cup (IF "lower" \notin passphrase.classes THEN {"lowercase"} ELSE {})
            \cup (IF "upper" \notin passphrase.classes THEN {"uppercase"} ELSE {})
            \cup (IF "digit" \notin passphrase.classes THEN {"number"} ELSE {})
            \cup (IF "symbol" \notin passphrase.classes THEN {"special"} ELSE {})
    IN  [isValid |-> errors = {}, errors |-> errors]

\* btoa(String.fromCharCode(...bytes)): the base64 text of a byte string.
Btoa(bytes) == [b64 |-> bytes]
\* Whether atob accepts the text: only characters of the base64 alphabet and
\* a length that is not 1 modulo 4.
IsBase64(text) == "b64" \in DOMAIN text
\* Uint8Array.from(atob(text), c => c.charCodeAt(0)).
Atob(text) == text.b64

\* The code units followed: two letters, the byte order mark U+FEFF, a high
\* and a low surrogate, and the replacement character U+FFFD.
CodeUnits == {"A", "B", "FEFF", "D83D", "DE00", "FFFD"}

\* new TextEncoder().encode(data): the scalar values of the string in UTF-8.
\* A surrogate pair is one scalar value, a surrogate without its partner
\* becomes U+FFFD.  UTF-8 is one-to-one on scalar values, which stand for
\* their bytes here.
RECURSIVE TextEncode(_)
TextEncode(data) ==
    IF data = << >> THEN << >>
    ELSE IF Len(data) >= 2 /\ data[1] = "D83D" /\ data[2] = "DE00"
         THEN <<"1F600">> \o TextEncode(SubSeq(data, 3, Len(data)))
         ELSE IF data[1] \in {"D83D", "DE00"}
              THEN <<"FFFD">> \o TextEncode(Tail(data))
              ELSE <<data[1]>> \o TextEncode(Tail(data))

\* The code units of a sequence of scalar values.
RECURSIVE CodeUnitsOf(_)
CodeUnitsOf(scalars) ==
    IF scalars = << >> THEN << >>
    ELSE (IF scalars[1] = "1F600" THEN <<"D83D", "DE00">> ELSE <<scalars[1]>>)
         \o CodeUnitsOf(Tail(scalars))

\* new TextDecoder().decode(bytes) of well-formed UTF-8: ignoreBOM is left
\* false, so a byte order mark at the start is dropped.
TextDecode(bytes) ==
    CodeUnitsOf(IF bytes # << >> /\ bytes[1] = "FEFF" THEN Tail(bytes) ELSE bytes)

\* expiry.toString() (NumberToString) and parseInt(expiry, 10) of the localStorage slot.
NumberToString(n) == [digits |-> n]
ParseInt(s) == s.digits

\* CryptoService.deriveKey: PBKDF2 is a function of the passphrase bytes and
\* the salt, injective up to collisions of a 256-bit key.
DeriveKey(passphrase, salt) == [pass |-> passphrase.text, salt |-> salt.bytes]

\* CryptoService.encryptWithKey: iv || AES-GCM(key, iv, encode(data)),
\* base64.  The GCM tag binds the ciphertext to the key and the nonce.
EncryptWithKey(data, key, iv) ==
    Btoa([iv |-> iv, sealed |-> [key |-> key, iv |-> iv, data |-> TextEncode(data)]])

\* Whether crypto.subtle.decrypt accepts the bytes after the nonce: they are
\* the whole output of AES-GCM under this key and the nonce before them (a
\* null key makes it throw as well).
TagVerifies(bytes, key) ==
    /\ key # Null
    /\ DOMAIN bytes.sealed = {"key", "iv", "data"}
    /\ bytes.sealed.key = key
    /\ bytes.sealed.iv = bytes.iv

\* CryptoService.decryptWithKey: atob runs before the try and its exception
\* leaves the method as it is; inside the try the plaintext is decoded when
\* the tag verifies, and every failure becomes the Error.
DecryptWithKey(encryptedData, key) ==
    IF ~IsBase64(encryptedData)
    THEN [ok |-> FALSE, value |-> InvalidCharacterError]
    ELSE LET bytes == Atob(encryptedData)
         IN  IF TagVerifies(bytes, key)
             THEN [ok |-> TRUE, value |-> TextDecode(bytes.sealed.data)]
             ELSE [ok |-> FALSE, value |-> DecryptError]

\* The session check with its comparison turned round.
SessionExpiredReversed(expiry, time) == expiry # Absent /\ time < ParseInt(expiry)

\* The session check's test: expiry && Date.now() > parseInt(expiry, 10).
SessionExpired(expiry, time) == expiry # Absent /\ time > ParseInt(expiry)

\* ------------------------------------------------------------------- state
VARIABLES
    \* IndexedDB settings store: key -> record value, or Absent.
    settingsStore,
    \* localStorage[telims_session_expiry]: Absent or a decimal string.
    sessionExpiry,
    \* DatabaseService fields.
    db, encryptionKey, keySalt, sessionCheckInterval, inactivityTimeoutId,
    boundFocusHandler, boundBlurHandler,
    \* The page: live setInterval callbacks, deadlines of live setTimeout
    \* callbacks, registered window listeners, document.hasFocus(), a
    \* navigation started by window.location.reload().
    liveIntervals, pendingTimeouts, focusListeners, blurListeners, hasFocus,
    reloadPending,
    \* Date.now() and the number of clock jumps so far.
    now, advances,
    \* The unlock call in flight: where it is suspended, its arguments (with
    \* whether the unlock screen made the call, whether the session was
    \* locked and what the settings store held when it was called), its
    \* locals.
    unlockPc, unlockArgs, unlockLocal,
    \* Salts drawn so far (each draw of 16 random bytes is a fresh value).
    saltCtr,
    \* IndexedDB scripts store, keyPath id: a function from the ids present
    \* to their records; and the UUIDs drawn so far.
    scriptsStore, uuidCtr,
    \* The script operation in flight: where it is suspended, its arguments
    \* (with whether the key was live when it was called), its locals; and
    \* how the last one that settled ended.
    docPc, docArgs, docLocal, docResult,
    \* The record 'settings' of the IndexedDB settings store (Absent until
    \* the first updateSettings), and the updateSettings call in flight:
    \* where it is suspended, its argument, its locals, how the last one
    \* settled.
    settingsRecord, setPc, setArgs, setLocal, setResult,
    \* UnlockScreen: whether it is mounted (the provider's isUnlocked state is
    \* false), and its state: isCheckingVault until checkExistingVault ran,
    \* and isFirstTime (its null and its false both read as FALSE: the screen
    \* only ever tests it for truth and passes isFirstTime ?? false).
    screenMounted, isCheckingVault, isFirstTime,
    \* History: the last step taken, whether it was a lock() that discarded
    \* a live key, the result of the last unlock call that returned, whether
    \* lock() or an exception cut into the call in flight, and the passphrase
    \* of the first first-time unlock that succeeded.
    lastEvent, lockDroppedKey, unlockResult, unlockDisturbed, createdPass,
    \* A direct use of the CryptoService: the plaintext and key given to
    \* encryptWithKey, the blob it returned, what was done to the blob since,
    \* and the key given to decryptWithKey with what it settled with.
    crypto,
    \* StorageProvider: its state scripts, currentScript, settings and
    \* isLoading (its isUnlocked is ~screenMounted: the page renders the
    \* unlock screen exactly while isUnlocked is false), or Null when the
    \* DatabaseService is driven without a provider; and the provider call in
    \* flight: which one, what it calls next when the call it awaited has
    \* settled, the id it was given and whether currentScript had that id
    \* when it was called; and, in the state the return of the provider's
    \* unlock leads to, its result.
    context, providerCall,
    \* TeleprompterDisplay: Null while none is mounted; otherwise which of
    \* the two components it is, its state `script`, the fields changed
    \* through updateScriptSetting, the setTimeout callbacks of debounce
    \* still pending with their arguments, the timeoutId of the debounced
    \* function the component holds now, and the updateScript calls it made
    \* with where each is suspended and its locals.
    teleprompter,
    \* VoiceService (the singleton voiceService) with what it made: the
    \* stage of its worker ("none" until initialize made one), isReady,
    \* isInitializing, the MediaRecorders made so far (state, whether the
    \* tracks of the stream are live, onstop handlers suspended in
    \* processAudio), the one mediaRecorder points at (0 for null),
    \* isListening, whether onCommandCallback is set, the live intervals and
    \* the one recordingInterval holds (0 for null), and the startListening
    \* calls with where each is suspended.  stopThrows is the engine's
    \* answer to stop() on an inactive recorder.  History: what the service
    \* was doing when stopListening was last called, "no" since the
    \* startListening call after it.
    voice

sessionVars ==
    <<db, encryptionKey, keySalt, sessionCheckInterval, inactivityTimeoutId,
      boundFocusHandler, boundBlurHandler>>
pageVars ==
    <<liveIntervals, pendingTimeouts, focusListeners, blurListeners, hasFocus,
      reloadPending>>
clockVars == <<now, advances>>
unlockVars == <<unlockPc, unlockArgs, unlockLocal>>
uiVars == <<screenMounted, isCheckingVault, isFirstTime>>
histVars == <<lastEvent, lockDroppedKey, unlockResult, unlockDisturbed, createdPass>>
docVars == <<scriptsStore, uuidCtr, docPc, docArgs, docLocal, docResult>>
settingsVars == <<settingsRecord, setPc, setArgs, setLocal, setResult>>
appVars ==
    <<settingsStore, sessionExpiry, sessionVars, pageVars, clockVars,
      unlockVars, saltCtr, uiVars, histVars, docVars, settingsVars>>
providerVars == <<context, providerCall>>
vars == <<appVars, crypto, providerVars, teleprompter, voice>>

NoCrypto ==
    [data |-> Null, key |-> Null, blob |-> Null, change |-> "none", usedKey |-> Null,
     result |-> Null]

\* The useState initial values of StorageProvider (lines 567-571), no
\* provider call in flight, and a provider whose mount effect is yet to run.
NoContext ==
    [scripts |-> << >>, currentScript |-> Null, settings |-> Null, isLoading |-> FALSE]
NoProviderCall ==
    [op |-> "none", then |-> "none", id |-> 0, current |-> FALSE, result |-> FALSE]
Mounting == [NoProviderCall EXCEPT !.op = "mount", !.then = "checkSession"]

\* new VoiceService() (part_008 lines 47-54), on an engine whose
\* MediaRecorder.stop() throws or does not throw when the recorder is
\* inactive.
NewVoiceService(stopThrows) ==
    [worker |-> "none", isReady |-> FALSE, isInitializing |-> FALSE,
     recorders |-> << >>, mediaRecorder |-> 0, isListening |-> FALSE,
     onCommandCallback |-> FALSE, intervals |-> {}, recordingInterval |-> 0,
     calls |-> << >>, stopThrows |-> stopThrows, stopped |-> "no"]

SettingsKeys == {"encryption_salt", "validation_token"}
NoArgs ==
    [passphrase |-> Null, isFirstTime |-> FALSE, viaScreen |-> FALSE, locked |-> TRUE,
     stored |-> Absent]
NoLocal == [salt |-> Null, key |-> Null, token |-> Null]
NoDocArgs == [op |-> "none", id |-> 0, input |-> Null, keyLive |-> FALSE]
NoDocLocal == [key |-> Null, script |-> Null, blob |-> Null, list |-> << >>]
NoDocResult == [op |-> "none", ok |-> FALSE, error |-> "", value |-> Null]
NoSetResult == [ok |-> FALSE, error |-> "", value |-> Null]

\* new DatabaseService(), an empty origin, a focused page.
Init ==
    /\ settingsStore = [k \in SettingsKeys |-> Absent]
    /\ sessionExpiry = Absent
    /\ db = FALSE
    /\ encryptionKey = Null
    /\ keySalt = Null
    /\ sessionCheckInterval = FALSE
    /\ inactivityTimeoutId = Null
    /\ boundFocusHandler = FALSE
    /\ boundBlurHandler = FALSE
    /\ liveIntervals = 0
    /\ pendingTimeouts = {}
    /\ focusListeners = 0
    /\ blurListeners = 0
    /\ hasFocus = TRUE
    /\ reloadPending = FALSE
    /\ now = 0
    /\ advances = 0
    /\ unlockPc = "idle"
    /\ unlockArgs = NoArgs
    /\ unlockLocal = NoLocal
    /\ saltCtr = 0
    /\ screenMounted = TRUE
    /\ isCheckingVault = TRUE
    /\ isFirstTime = FALSE
    /\ lastEvent = "init"
    /\ lockDroppedKey = FALSE
    /\ unlockResult = FALSE
    /\ unlockDisturbed = FALSE
    /\ createdPass = Null
    /\ scriptsStore = << >>
    /\ uuidCtr = 0
    /\ docPc = "idle"
    /\ docArgs = NoDocArgs
    /\ docLocal = NoDocLocal
    /\ docResult = NoDocResult
    /\ settingsRecord = Absent
    /\ setPc = "idle"
    /\ setArgs = Null
    /\ setLocal = Null
    /\ setResult = NoSetResult
    /\ crypto = NoCrypto
    /\ teleprompter = Null
    /\ voice = NewVoiceService(FALSE)
    /\ context = Null
    /\ providerCall = NoProviderCall

\* isUnlocked(): this.encryptionKey !== null.
isUnlocked == encryptionKey # Null

\* ----------------------------------------------------------------- history
\* unlockArgs, unlockResult and unlockDisturbed describe the unlock call in
\* flight and, in the state its return leads to, the call that returned;
\* docArgs and docResult do so for the script operation.  Any other step
\* taken while no call is in flight forgets them.
UnlockStays ==
    /\ UNCHANGED <<unlockPc, unlockLocal>>
    /\ unlockArgs' = IF unlockPc = "idle" THEN NoArgs ELSE unlockArgs
    /\ unlockResult' = FALSE

DisturbedStays == unlockDisturbed' = (unlockPc # "idle" /\ unlockDisturbed)

\* The provider call that a step of a script operation belongs to: a new
\* one when the step is the call of the operation and no provider call is in
\* flight (loadScripts calls getAllScripts, the others the DatabaseService
\* method of their name), the one in flight otherwise, now awaiting; the
\* mount effect calls db.getSettings right after loadScripts, without
\* awaiting it (lines 578-579).
ProviderCallOfDoc ==
    IF docPc = "idle" /\ providerCall.op = "none"
    THEN [op |-> IF docArgs'.op = "getAllScripts" THEN "loadScripts" ELSE docArgs'.op,
          then |-> "none",
          id |-> docArgs'.id,
          current |-> IF context.currentScript = Null THEN FALSE
                      ELSE context.currentScript.id = docArgs'.id,
          result |-> FALSE]
    ELSE [providerCall EXCEPT
             !.then = IF providerCall.op = "mount" /\ docPc = "idle"
                      THEN "getSettings" ELSE "none"]

\* isLoading after a step of a script operation: loadScripts sets it before
\* it calls getAllScripts (line 616).
LoadingAfterDoc ==
    IF docPc = "idle" /\ docArgs'.op = "getAllScripts" THEN TRUE ELSE context.isLoading

\* What the StorageProvider does in the step in which the DatabaseService
\* method it awaits is called, goes on or settles (lines 589-653; the
\* continuation of an await runs before any other task).
\*  - unlock, lines 589-605: isLoading is set on the call; true from db.unlock
\*    (isUnlocked is set with it) goes on to loadScripts and then getSettings,
\*    whose result becomes settings before unlock returns true; false from
\*    db.unlock, or a rejected getSettings (the catch), makes it return
\*    false; isLoading is cleared at the end.
\*  - loadScripts, lines 615-625: the list of getAllScripts becomes scripts,
\*    a rejection is shown as a toast; isLoading is cleared.
\*  - saveScript, lines 627-631, and updateScript, lines 633-640: the
\*    DatabaseService method, then loadScripts; updateScript then reads the
\*    document again into currentScript when currentScript had its id.
\*  - the mount effect, lines 576-579: loadScripts and db.getSettings run
\*    side by side; the result of getSettings becomes settings and isLoading
\*    is left to loadScripts.
ProviderFollows(e) ==
    IF context = Null THEN UNCHANGED providerVars
    ELSE CASE e = "reload" ->
                  /\ context' = NoContext
                  /\ providerCall' = Mounting
           [] e = "handle_unlock" ->
                  /\ context' = [context EXCEPT !.isLoading = TRUE]
                  /\ providerCall' = [NoProviderCall EXCEPT !.op = "unlock"]
           [] e = "unlock_return" ->
                  IF unlockResult'
                  THEN /\ context' = context
                       /\ providerCall' = [providerCall EXCEPT !.then = "loadScripts"]
                  ELSE /\ context' = [context EXCEPT !.isLoading = FALSE]
                       /\ providerCall' = NoProviderCall
           [] e = "doc_step" ->
                  /\ context' = [context EXCEPT !.isLoading = LoadingAfterDoc]
                  /\ providerCall' = ProviderCallOfDoc
           [] e = "doc_return" /\ docResult'.op = "getAllScripts" ->
                  /\ context' = [context EXCEPT
                                    !.scripts = IF docResult'.ok THEN docResult'.value ELSE @,
                                    !.isLoading = FALSE]
                  /\ providerCall' =
                         CASE ProviderCallOfDoc.op = "unlock" ->
                                  [ProviderCallOfDoc EXCEPT !.then = "getSettings"]
                           [] ProviderCallOfDoc.op = "mount" ->
                                  IF ProviderCallOfDoc.then = "none" /\ setPc = "idle"
                                  THEN NoProviderCall ELSE ProviderCallOfDoc
                           [] ProviderCallOfDoc.op = "updateScript"
                              /\ ProviderCallOfDoc.current ->
                                  [ProviderCallOfDoc EXCEPT !.then = "getScript"]
                           [] OTHER -> NoProviderCall
           [] e = "doc_return" /\ docResult'.op \in {"saveScript", "updateScript"} ->
                  /\ context' = context
                  /\ providerCall' =
                         IF docResult'.ok
                         THEN [ProviderCallOfDoc EXCEPT !.then = "loadScripts"]
                         ELSE NoProviderCall
           [] e = "doc_return" /\ docResult'.op = "getScript" ->
                  /\ context' = [context EXCEPT
                                    !.currentScript =
                                        IF docResult'.ok THEN docResult'.value ELSE @]
                  /\ providerCall' = NoProviderCall
           [] e = "settings_step" ->
                  /\ context' = context
                  /\ providerCall' = [providerCall EXCEPT !.then = "none"]
           [] e \in {"settings_got", "settings_return"} ->
                  /\ context' = [context EXCEPT
                                    !.settings = IF setResult'.ok THEN setResult'.value ELSE @,
                                    !.isLoading = IF providerCall.op = "mount" THEN @ ELSE FALSE]
                  /\ providerCall' =
                         IF providerCall.op = "mount"
                         THEN IF docPc # "idle"
                              THEN [providerCall EXCEPT !.then = "none"]
                              ELSE NoProviderCall
                         ELSE [NoProviderCall EXCEPT !.result = setResult'.ok]
           [] OTHER -> UNCHANGED providerVars

\* A reload of the page unmounts the components it showed, with their
\* timers and the calls they had in flight.
ComponentsFollow(e) ==
    IF e = "reload"
    THEN /\ teleprompter' = Null
         /\ voice' = NewVoiceService(voice.stopThrows)
    ELSE UNCHANGED <<teleprompter, voice>>

\* A step other than a run of lock() is noted, and the StorageProvider and
\* the components go on from it.
Event(e) ==
    /\ lastEvent' = e
    /\ lockDroppedKey' = FALSE
    /\ UNCHANGED crypto
    /\ ComponentsFollow(e)
    /\ ProviderFollows(e)

DocStays ==
    /\ UNCHANGED <<scriptsStore, uuidCtr, docPc, docLocal>>
    /\ docArgs' = IF docPc = "idle" THEN NoDocArgs ELSE docArgs
    /\ docResult' = NoDocResult

\* ------------------------------------------------------ lock and its timers
\* lock(), lines 313-337, run with `timeouts` the setTimeout callbacks still
\* pending: drops the key, clears the expiry slot, clears the interval and
\* the timeout its fields point at, removes the listeners its fields point
\* at, and asks the page to reload.  db, the stores and every timer or
\* listener no field points at are left as they are.
lock(timeouts) ==
    /\ encryptionKey' = Null
    /\ keySalt' = Null
    /\ sessionExpiry' = Absent
    /\ liveIntervals' = IF sessionCheckInterval THEN liveIntervals - 1 ELSE liveIntervals
    /\ sessionCheckInterval' = FALSE
    /\ pendingTimeouts' =
           IF inactivityTimeoutId # Null THEN timeouts \ {inactivityTimeoutId} ELSE timeouts
    /\ inactivityTimeoutId' = Null
    /\ focusListeners' = IF boundFocusHandler THEN focusListeners - 1 ELSE focusListeners
    /\ boundFocusHandler' = FALSE
    /\ blurListeners' = IF boundBlurHandler THEN blurListeners - 1 ELSE blurListeners
    /\ boundBlurHandler' = FALSE
    /\ reloadPending' = TRUE
    /\ unlockDisturbed' = (unlockPc # "idle")
    /\ lockDroppedKey' = isUnlocked
    /\ UNCHANGED <<crypto, teleprompter, voice>>
    /\ UNCHANGED <<db, hasFocus>>

\* startSessionTimer(): a new interval and a new pair of listeners; the
\* fields are overwritten, whatever they pointed at before.
startSessionTimer ==
    /\ liveIntervals' = liveIntervals + 1
    /\ sessionCheckInterval' = TRUE
    /\ focusListeners' = focusListeners + 1
    /\ boundFocusHandler' = TRUE
    /\ blurListeners' = blurListeners + 1
    /\ boundBlurHandler' = TRUE

\* An expiry that is written only when none is persisted.
updateSessionExpiryOnce ==
    sessionExpiry' = IF sessionExpiry = Absent
                     THEN NumberToString(now + SessionTimeout) ELSE sessionExpiry

\* updateSessionExpiry(): the slot becomes Date.now() + sessionTimeout.
updateSessionExpiry == sessionExpiry' = NumberToString(now + SessionTimeout)

\* handleInactivity(): the timeout the field points at is cleared and a new
\* one armed, due inactivityTimeout from now.
handleInactivity ==
    /\ pendingTimeouts' =
           (IF inactivityTimeoutId # Null
            THEN pendingTimeouts \ {inactivityTimeoutId}
            ELSE pendingTimeouts) \cup {[due |-> now + InactivityTimeout]}
    /\ inactivityTimeoutId' = [due |-> now + InactivityTimeout]

\* The inactivity callback without its focus test.
InactivityLocksAlways(focused) == TRUE

\* The test of the inactivity callback: if (!document.hasFocus()) lock.
InactivityLocks(focused) == ~focused

\* ------------------------------------------------------------------ unlock
\* How an unlock call ends: its result, and its locals dropped.
UnlockReturn(result) ==
    /\ unlockPc' = "idle"
    /\ unlockLocal' = NoLocal
    /\ unlockResult' = result
    /\ UNCHANGED unlockArgs

\* The catch of unlock, lines 223-227.
UnlockCatch ==
    /\ encryptionKey' = Null
    /\ keySalt' = Null
    /\ UnlockReturn(FALSE)

\* Lines 212-216 without this.encryptionKey = null.
UnlockRejectedKeepsKey ==
    /\ UNCHANGED <<encryptionKey, keySalt>>
    /\ UnlockReturn(FALSE)

\* Lines 212-216: the token did not validate.
UnlockRejected ==
    /\ encryptionKey' = Null
    /\ keySalt' = Null
    /\ UnlockReturn(FALSE)

\* Lines 219-222: startSessionTimer(); updateSessionExpiry(); return true.
\* When the unlock screen made the call, the provider's unlock (lines
\* 589-605) sees true and sets isUnlocked, which unmounts the screen.
UnlockSucceeds ==
    /\ startSessionTimer
    /\ updateSessionExpiry
    /\ UnlockReturn(TRUE)
    /\ IF unlockArgs.viaScreen
       THEN /\ screenMounted' = FALSE
            /\ isCheckingVault' = TRUE
            /\ isFirstTime' = FALSE
       ELSE UNCHANGED uiVars
    /\ createdPass' =
           IF unlockArgs.isFirstTime /\ createdPass = Null
           THEN unlockArgs.passphrase ELSE createdPass
    /\ UNCHANGED <<db, inactivityTimeoutId, pendingTimeouts, hasFocus, reloadPending,
                   clockVars, saltCtr, unlockDisturbed>>

\* Whether a further unlock call fits the bounds.
UnlockFits(first) ==
    /\ unlockPc = "idle"
    /\ liveIntervals < MaxTimers
    /\ first => saltCtr < MaxSalts

\* unlock(passphrase, isFirstTime) is called and suspends on initialize().
UnlockStart(passphrase, first, event) ==
    /\ UNCHANGED settingsVars
    /\ UnlockFits(first)
    /\ unlockPc' = "initialize"
    /\ unlockArgs' = [passphrase |-> passphrase, isFirstTime |-> first,
                      viaScreen |-> (event = "handle_unlock"),
                      locked |-> ~isUnlocked, stored |-> settingsStore]
    /\ unlockLocal' = NoLocal
    /\ unlockDisturbed' = FALSE
    /\ unlockResult' = FALSE
    /\ Event(event)
    /\ DocStays
    /\ UNCHANGED <<settingsStore, sessionExpiry, sessionVars, pageVars, clockVars,
                   saltCtr, uiVars, createdPass>>

\* A caller of the DatabaseService calls unlock directly.
UnlockCall(passphrase, first) == UnlockStart(passphrase, first, "unlock_call")

\* initialize() resolved (line 192).  First time: 16 random bytes are the
\* salt and deriveKey is awaited.  Otherwise getStoredSalt is awaited.
UnlockInitialized ==
    /\ UNCHANGED settingsVars
    /\ unlockPc = "initialize"
    /\ db' = TRUE
    /\ IF unlockArgs.isFirstTime
       THEN /\ saltCtr' = saltCtr + 1
            /\ unlockLocal' = [unlockLocal EXCEPT !.salt = [bytes |-> saltCtr + 1]]
            /\ unlockPc' = "derive"
       ELSE /\ saltCtr' = saltCtr
            /\ unlockLocal' = unlockLocal
            /\ unlockPc' = "get_salt"
    /\ Event("unlock_step")
    /\ DocStays
    /\ UNCHANGED <<settingsStore, sessionExpiry, encryptionKey, keySalt,
                   sessionCheckInterval, inactivityTimeoutId, boundFocusHandler,
                   boundBlurHandler, pageVars, clockVars, unlockArgs, uiVars,
                   unlockResult, unlockDisturbed, createdPass>>

\* getStoredSalt resolved (lines 256-264): no record gives null and unlock
\* returns false at line 200; a record is decoded and deriveKey is awaited.
UnlockGotSalt ==
    /\ UNCHANGED settingsVars
    /\ unlockPc = "get_salt"
    /\ IF settingsStore["encryption_salt"] = Absent
       THEN UnlockReturn(FALSE)
       ELSE /\ unlockPc' = "derive"
            /\ unlockLocal' =
                   [unlockLocal EXCEPT !.salt = Atob(settingsStore["encryption_salt"])]
            /\ UNCHANGED <<unlockArgs, unlockResult>>
    /\ Event(IF settingsStore["encryption_salt"] = Absent
             THEN "unlock_return" ELSE "unlock_step")
    /\ DocStays
    /\ UNCHANGED <<settingsStore, sessionExpiry, sessionVars, pageVars, clockVars,
                   saltCtr, uiVars, unlockDisturbed, createdPass>>

\* deriveKey resolved (lines 204-205): the key is live from here on.  Then
\* storeSalt (first time) or validatePassphrase starts its request.
UnlockDerived ==
    /\ UNCHANGED settingsVars
    /\ unlockPc = "derive"
    /\ encryptionKey' = DeriveKey(unlockArgs.passphrase, unlockLocal.salt)
    /\ keySalt' = unlockLocal.salt
    /\ unlockPc' = IF unlockArgs.isFirstTime THEN "store_salt" ELSE "validate_get"
    /\ Event("unlock_step")
    /\ DocStays
    /\ UNCHANGED <<settingsStore, sessionExpiry, db, sessionCheckInterval,
                   inactivityTimeoutId, boundFocusHandler, boundBlurHandler, pageVars,
                   clockVars, unlockArgs, unlockLocal, saltCtr, uiVars,
                   unlockResult, unlockDisturbed, createdPass>>

\* storeSalt's put succeeded (lines 233-243).  createValidationToken then
\* throws when the key is gone (line 270) and awaits encryptWithKey
\* otherwise, with the key as it is now.
UnlockSaltStored ==
    /\ UNCHANGED settingsVars
    /\ unlockPc = "store_salt"
    /\ settingsStore' =
           [settingsStore EXCEPT !["encryption_salt"] = Btoa(unlockLocal.salt)]
    /\ IF encryptionKey = Null
       THEN UnlockCatch
       ELSE /\ unlockPc' = "token_encrypt"
            /\ unlockLocal' = [unlockLocal EXCEPT !.key = encryptionKey]
            /\ UNCHANGED <<encryptionKey, keySalt, unlockArgs, unlockResult>>
    /\ Event("unlock_step")
    /\ DocStays
    /\ UNCHANGED <<sessionExpiry, db, sessionCheckInterval, inactivityTimeoutId,
                   boundFocusHandler, boundBlurHandler, pageVars, clockVars, saltCtr,
                   uiVars, unlockDisturbed, createdPass>>

\* encryptWithKey('telims_valid', key) resolved (line 274) under a nonce;
\* the put of the token starts.
UnlockTokenEncrypted(iv) ==
    /\ UNCHANGED settingsVars
    /\ unlockPc = "token_encrypt"
    /\ unlockLocal' =
           [unlockLocal EXCEPT !.token = EncryptWithKey(Marker, unlockLocal.key, iv)]
    /\ unlockPc' = "token_put"
    /\ Event("unlock_step")
    /\ DocStays
    /\ UNCHANGED <<settingsStore, sessionExpiry, sessionVars, pageVars, clockVars,
                   unlockArgs, saltCtr, uiVars, unlockResult, unlockDisturbed,
                   createdPass>>

\* The put of the token succeeded (lines 277-283); unlock runs to its end.
UnlockTokenStored ==
    /\ UNCHANGED settingsVars
    /\ unlockPc = "token_put"
    /\ settingsStore' =
           [settingsStore EXCEPT !["validation_token"] = unlockLocal.token]
    /\ UnlockSucceeds
    /\ Event("unlock_return")
    /\ DocStays
    /\ UNCHANGED <<encryptionKey, keySalt>>

\* validatePassphrase's get resolved (lines 295-300): no token resolves
\* false; a token is handed to decryptWithKey with the key as it is now.
UnlockTokenRead ==
    /\ UNCHANGED settingsVars
    /\ unlockPc = "validate_get"
    /\ IF settingsStore["validation_token"] = Absent
       THEN /\ UnlockRejected
            /\ Event("unlock_return")
            /\ DocStays
       ELSE /\ unlockPc' = "validate_decrypt"
            /\ unlockLocal' = [unlockLocal EXCEPT
                   !.key = encryptionKey, !.token = settingsStore["validation_token"]]
            /\ Event("unlock_step")
            /\ DocStays
            /\ UNCHANGED <<encryptionKey, keySalt, unlockArgs, unlockResult>>
    /\ UNCHANGED <<settingsStore, sessionExpiry, db, sessionCheckInterval,
                   inactivityTimeoutId, boundFocusHandler, boundBlurHandler, pageVars,
                   clockVars, saltCtr, uiVars, unlockDisturbed, createdPass>>

\* validatePassphrase: resolve(decrypted === 'telims_valid'), false when
\* decryptWithKey threw (lines 302-307).
validatePassphrase(token, key) ==
    LET decrypted == DecryptWithKey(token, key)
    IN  decrypted.ok /\ decrypted.value = Marker

\* decryptWithKey settled (lines 302-307) and unlock resumes at line 212.
UnlockValidated ==
    /\ UNCHANGED settingsVars
    /\ unlockPc = "validate_decrypt"
    /\ IF validatePassphrase(unlockLocal.token, unlockLocal.key)
       THEN /\ UnlockSucceeds
            /\ UNCHANGED <<encryptionKey, keySalt>>
       ELSE /\ UnlockRejected
            /\ UNCHANGED <<sessionExpiry, db, sessionCheckInterval,
                           inactivityTimeoutId, boundFocusHandler, boundBlurHandler,
                           pageVars, clockVars, saltCtr, uiVars, unlockDisturbed,
                           createdPass>>
    /\ Event("unlock_return")
    /\ DocStays
    /\ UNCHANGED settingsStore

\* The operation unlock is suspended on rejects (indexedDB.open, a get or a
\* put request, a crypto.subtle call): nothing is written and the catch runs.
UnlockThrows ==
    /\ UNCHANGED settingsVars
    /\ unlockPc # "idle"
    /\ UnlockCatch
    /\ unlockDisturbed' = TRUE
    /\ Event("unlock_return")
    /\ DocStays
    /\ UNCHANGED <<settingsStore, sessionExpiry, db, sessionCheckInterval,
                   inactivityTimeoutId, boundFocusHandler, boundBlurHandler, pageVars,
                   clockVars, saltCtr, uiVars, createdPass>>

\* -------------------------------------------------- lock, timers, the page
\* A caller calls lock().
LockCall ==
    /\ UNCHANGED settingsVars
    /\ lock(pendingTimeouts)
    /\ lastEvent' = "lock"
    /\ UNCHANGED providerVars
    /\ UnlockStays
    /\ DocStays
    /\ UNCHANGED <<settingsStore, clockVars, saltCtr, uiVars,
                   createdPass>>

\* One run of the setInterval callback of startSessionTimer (lines 504-509).
\* A run finds the slot past only after a session timeout has gone by since
\* the slot was written, so whether timers run late or on time is immaterial.
SessionCheck ==
    /\ UNCHANGED settingsVars
    /\ liveIntervals > 0
    /\ IF SessionExpired(sessionExpiry, now)
       THEN lock(pendingTimeouts)
       ELSE /\ UNCHANGED <<sessionExpiry, sessionVars, pageVars>>
            /\ DisturbedStays
            /\ lockDroppedKey' = FALSE
            /\ UNCHANGED <<crypto, teleprompter, voice>>
    /\ lastEvent' = "session_check"
    /\ UNCHANGED providerVars
    /\ UnlockStays
    /\ DocStays
    /\ UNCHANGED <<settingsStore, clockVars, saltCtr, uiVars,
                   createdPass>>

\* The window gains focus: every registered focus listener runs
\* updateSessionExpiry (line 512).
FocusEvent ==
    /\ UNCHANGED settingsVars
    /\ ~hasFocus
    /\ hasFocus' = TRUE
    /\ IF focusListeners > 0 THEN updateSessionExpiry ELSE UNCHANGED sessionExpiry
    /\ Event("focus")
    /\ UnlockStays
    /\ DisturbedStays
    /\ DocStays
    /\ UNCHANGED <<settingsStore, sessionVars, liveIntervals, pendingTimeouts,
                   focusListeners, blurListeners, reloadPending, clockVars, saltCtr, uiVars, createdPass>>

\* The window loses focus: every registered blur listener runs
\* handleInactivity (line 513).
BlurEvent ==
    /\ UNCHANGED settingsVars
    /\ hasFocus
    /\ hasFocus' = FALSE
    /\ IF blurListeners > 0
       THEN handleInactivity
       ELSE UNCHANGED <<pendingTimeouts, inactivityTimeoutId>>
    /\ Event("blur")
    /\ UnlockStays
    /\ DisturbedStays
    /\ DocStays
    /\ UNCHANGED <<settingsStore, sessionExpiry, db, encryptionKey, keySalt,
                   sessionCheckInterval, boundFocusHandler, boundBlurHandler,
                   liveIntervals, focusListeners, blurListeners, reloadPending,
                   clockVars, saltCtr, uiVars, createdPass>>

\* A setTimeout callback of handleInactivity runs, at or after its deadline
\* (lines 525-530): lock() unless the document has focus, then the field is
\* nulled.
InactivityFires(timer) ==
    /\ UNCHANGED settingsVars
    /\ timer \in pendingTimeouts
    /\ now >= timer.due
    /\ IF InactivityLocks(hasFocus)
       THEN lock(pendingTimeouts \ {timer})
       ELSE /\ pendingTimeouts' = pendingTimeouts \ {timer}
            /\ inactivityTimeoutId' = Null
            /\ UNCHANGED <<sessionExpiry, db, encryptionKey, keySalt,
                           sessionCheckInterval, boundFocusHandler, boundBlurHandler,
                           liveIntervals, focusListeners, blurListeners, hasFocus,
                           reloadPending>>
            /\ DisturbedStays
            /\ lockDroppedKey' = FALSE
            /\ UNCHANGED <<crypto, teleprompter, voice>>
    /\ lastEvent' = "inactivity_timeout"
    /\ UNCHANGED providerVars
    /\ UnlockStays
    /\ DocStays
    /\ UNCHANGED <<settingsStore, clockVars, saltCtr, uiVars,
                   createdPass>>

\* Time passes.
Advance(d) ==
    /\ UNCHANGED settingsVars
    /\ advances < MaxAdvances
    /\ now' = now + d
    /\ advances' = advances + 1
    /\ Event("advance")
    /\ UnlockStays
    /\ DisturbedStays
    /\ DocStays
    /\ UNCHANGED <<settingsStore, sessionExpiry, sessionVars, pageVars, saltCtr, uiVars, createdPass>>

\* The page is loaded anew (the reload lock() asked for, or the user's): a
\* new DatabaseService, no timers, no listeners, no call in flight, a newly
\* mounted unlock screen.  IndexedDB and localStorage stay.
Reload ==
    /\ db' = FALSE
    /\ encryptionKey' = Null
    /\ keySalt' = Null
    /\ sessionCheckInterval' = FALSE
    /\ inactivityTimeoutId' = Null
    /\ boundFocusHandler' = FALSE
    /\ boundBlurHandler' = FALSE
    /\ liveIntervals' = 0
    /\ pendingTimeouts' = {}
    /\ focusListeners' = 0
    /\ blurListeners' = 0
    /\ reloadPending' = FALSE
    /\ unlockPc' = "idle"
    /\ unlockArgs' = NoArgs
    /\ unlockLocal' = NoLocal
    /\ unlockResult' = FALSE
    /\ unlockDisturbed' = FALSE
    /\ screenMounted' = TRUE
    /\ isCheckingVault' = TRUE
    /\ isFirstTime' = FALSE
    /\ Event("reload")
    /\ docPc' = "idle"
    /\ docArgs' = NoDocArgs
    /\ docLocal' = NoDocLocal
    /\ docResult' = NoDocResult
    /\ setPc' = "idle"
    /\ setArgs' = Null
    /\ setLocal' = Null
    /\ setResult' = NoSetResult
    /\ UNCHANGED <<scriptsStore, uuidCtr, settingsRecord>>
    /\ UNCHANGED <<settingsStore, sessionExpiry, hasFocus, clockVars, saltCtr,
                   createdPass>>

\* ------------------------------------------------------- the unlock screen
\* A check for the salt record in place of the token.
hasStoredSalt == settingsStore["encryption_salt"] # Absent

\* hasExistingVault() (lines 177-188): initialize, then whether the settings
\* store holds a validation_token record.
hasExistingVault == settingsStore["validation_token"] # Absent

\* The mount effect checkExistingVault (unlock-screen.tsx lines 25-37):
\* isFirstTime is !hasVault, and true when hasExistingVault threw, either
\* in initialize ("open_failed") or in its get request ("get_failed").
CheckExistingVault(outcome) ==
    /\ UNCHANGED settingsVars
    /\ screenMounted
    /\ isCheckingVault
    /\ unlockPc = "idle"
    /\ db' = IF outcome = "open_failed" THEN db ELSE TRUE
    /\ isFirstTime' = IF outcome = "ok" THEN ~hasExistingVault ELSE TRUE
    /\ isCheckingVault' = FALSE
    /\ UNCHANGED screenMounted
    /\ Event(IF outcome = "ok" THEN "check_vault" ELSE "check_vault_threw")
    /\ UnlockStays
    /\ DisturbedStays
    /\ DocStays
    /\ UNCHANGED <<settingsStore, sessionExpiry, encryptionKey, keySalt,
                   sessionCheckInterval, inactivityTimeoutId, boundFocusHandler,
                   boundBlurHandler, pageVars, clockVars, saltCtr,
                   createdPass>>

\* Whether handleUnlock goes on to call onUnlock (lines 49-63): in first-time
\* mode the passphrase meets the policy and equals its confirmation.
HandleUnlockAccepts(passphrase, confirmPassphrase, first) ==
    first => /\ validatePassphraseStrength(passphrase).isValid
             /\ passphrase = confirmPassphrase

\* handleUnlock (lines 48-78) calls onUnlock(passphrase, isFirstTime ?? false).
HandleUnlock(passphrase, confirmPassphrase) ==
    /\ screenMounted
    /\ ~isCheckingVault
    /\ HandleUnlockAccepts(passphrase, confirmPassphrase, isFirstTime)
    /\ UnlockStart(passphrase, isFirstTime, "handle_unlock")

\* --------------------------------------------------------- script operations
\* { ...a, ...b }: the fields of b over those of a.
Merge(a, b) ==
    [k \in DOMAIN a \cup DOMAIN b |-> IF k \in DOMAIN b THEN b[k] ELSE a[k]]

\* The records of the store in ascending order of updatedAt.
RECURSIVE CursorNext(_)
CursorNext(store) ==
    IF DOMAIN store = {} THEN << >>
    ELSE LET first ==
                 CHOOSE i \in DOMAIN store : \A j \in DOMAIN store :
                     \/ store[i].updatedAt < store[j].updatedAt
                     \/ store[i].updatedAt = store[j].updatedAt /\ i <= j
         IN  <<store[first]>>
             \o CursorNext([j \in DOMAIN store \ {first} |-> store[j]])

\* The records of the store as index.openCursor(null, 'prev') on updatedAt
\* yields them: updatedAt descending, and id descending among equals.
RECURSIVE CursorPrev(_)
CursorPrev(store) ==
    IF DOMAIN store = {} THEN << >>
    ELSE LET first ==
                 CHOOSE i \in DOMAIN store : \A j \in DOMAIN store :
                     \/ store[i].updatedAt > store[j].updatedAt
                     \/ store[i].updatedAt = store[j].updatedAt /\ i >= j
         IN  <<store[first]>>
             \o CursorPrev([j \in DOMAIN store \ {first} |-> store[j]])

\* The store after put(record): the record at its own id (keyPath 'id').
Put(store, record) ==
    [i \in DOMAIN store \cup {record.id} |-> IF i = record.id THEN record ELSE store[i]]

\* A delete that empties the store.
DeleteClears(store, id) == << >>

\* The store after delete(id).
Delete(store, id) == [i \in DOMAIN store \ {id} |-> store[i]]

\* The guard that opens saveScript, updateScript, getScript and
\* getAllScripts: if (!this.db || !this.encryptionKey) throw.
RequireUnlocked == db /\ encryptionKey # Null

\* The guard that opens deleteScript (line 451): if (!this.db) throw.
RequireDeleteAllowed == db

\* A script operation is called: its arguments are noted, with whether the
\* key is live.
DocCalled(op, id, input) ==
    /\ UNCHANGED settingsVars
    /\ docPc = "idle"
    /\ docArgs' = [op |-> op, id |-> id, input |-> input, keyLive |-> isUnlocked]
    /\ UnlockStays
    /\ DisturbedStays
    /\ UNCHANGED <<settingsStore, sessionExpiry, sessionVars, pageVars, clockVars,
                   saltCtr, uiVars, createdPass>>

\* A script operation settles: resolved with a value, or rejected with an
\* error.
DocResolves(value) ==
    /\ docPc' = "idle"
    /\ docLocal' = NoDocLocal
    /\ docResult' = [op |-> docArgs'.op, ok |-> TRUE, error |-> "", value |-> value]
    /\ Event("doc_return")

DocRejects(error) ==
    /\ docPc' = "idle"
    /\ docLocal' = NoDocLocal
    /\ docResult' = [op |-> docArgs'.op, ok |-> FALSE, error |-> error, value |-> Null]
    /\ Event("doc_return")

\* A step of the operation in flight, which leaves all but the scripts store
\* and the operation's own state as it is.
DocStep ==
    /\ UNCHANGED settingsVars
    /\ UnlockStays
    /\ DisturbedStays
    /\ UNCHANGED <<settingsStore, sessionExpiry, sessionVars, pageVars, clockVars,
                   saltCtr, uiVars, createdPass, uuidCtr, docArgs>>

\* The operation goes on to its next await.
DocGoes(pc, local) ==
    /\ docPc' = pc
    /\ docLocal' = local
    /\ Event("doc_step")
    /\ docResult' = NoDocResult

\* saveScript(script), lines 343-355: the guard, then id, createdAt and
\* updatedAt are set and encryptWithKey is awaited with the live key.
SaveScriptCall(script) ==
    /\ uuidCtr < MaxScripts
    /\ DocCalled("saveScript", 0, script)
    /\ IF RequireUnlocked
       THEN /\ uuidCtr' = uuidCtr + 1
            /\ DocGoes("save_encrypt",
                   [NoDocLocal EXCEPT
                       !.key = encryptionKey,
                       !.script = Merge(script, [id |-> uuidCtr + 1, createdAt |-> now,
                                                 updatedAt |-> now])])
       ELSE /\ UNCHANGED uuidCtr
            /\ DocRejects(NotUnlocked)
    /\ UNCHANGED scriptsStore

\* encryptWithKey resolved (line 354); store.add is requested.
SaveScriptEncrypted(iv) ==
    /\ docPc = "save_encrypt"
    /\ DocStep
    /\ DocGoes("save_add",
           [docLocal EXCEPT
               !.blob = EncryptWithKey(docLocal.script.content, docLocal.key, iv)])
    /\ UNCHANGED scriptsStore

\* A saveScript whose write drops the records that were in the store.
SaveScriptAddedAlone ==
    /\ docPc = "save_add"
    /\ docLocal.script.id \notin DOMAIN scriptsStore
    /\ DocStep
    /\ scriptsStore' = Put(<< >>, Merge(docLocal.script, [content |-> docLocal.blob]))
    /\ DocResolves(docLocal.script)

\* store.add succeeded (lines 360-362): the record with its content
\* replaced by the ciphertext is in the store, and the plaintext script is
\* the result.  (add fails on an id that is present; a new UUID is not.)
SaveScriptAdded ==
    /\ docPc = "save_add"
    /\ docLocal.script.id \notin DOMAIN scriptsStore
    /\ DocStep
    /\ scriptsStore' = Put(scriptsStore, Merge(docLocal.script, [content |-> docLocal.blob]))
    /\ DocResolves(docLocal.script)

\* getScript(id) and the getScript inside updateScript(id, updates): the
\* guard (lines 368 and 393), then store.get is requested.
ReadScriptCall(op, id, updates) ==
    /\ DocCalled(op, id, updates)
    /\ IF RequireUnlocked
       THEN DocGoes("read_get", NoDocLocal)
       ELSE DocRejects(NotUnlocked)
    /\ UNCHANGED <<scriptsStore, uuidCtr>>

GetScriptCall(id) == ReadScriptCall("getScript", id, Null)

UpdateScriptCall(id, updates) == ReadScriptCall("updateScript", id, updates)

\* store.get resolved (lines 400-408).  No record: getScript resolves null,
\* and updateScript throws 'Script not found' (line 371).  A record: its
\* content is handed to decryptWithKey with the key as it is now.
ReadScriptGot ==
    /\ docPc = "read_get"
    /\ DocStep
    /\ IF docArgs.id \notin DOMAIN scriptsStore
       THEN IF docArgs.op = "getScript"
            THEN DocResolves(Null)
            ELSE DocRejects(NotFound)
       ELSE DocGoes("read_decrypt",
                [docLocal EXCEPT !.key = encryptionKey, !.script = scriptsStore[docArgs.id]])
    /\ UNCHANGED scriptsStore

\* An update that stamps updatedAt and drops the fields it was given.
UpdatedScriptKeepsExisting(existingScript, updates, time) ==
    Merge(existingScript, [updatedAt |-> time])

\* What updateScript builds at lines 373-377.
UpdatedScript(existingScript, updates, time) ==
    Merge(Merge(existingScript, updates), [updatedAt |-> time])

\* A read that resolves null when decryptWithKey fails.
ReadScriptDecryptedSwallows ==
    /\ docPc = "read_decrypt"
    /\ DocStep
    /\ LET decrypted == DecryptWithKey(docLocal.script.content, docLocal.key)
           script == Merge(docLocal.script, [content |-> decrypted.value])
       IN  IF ~decrypted.ok
           THEN DocResolves(Null)
           ELSE IF docArgs.op = "getScript"
                THEN DocResolves(script)
                ELSE DocGoes("update_encrypt",
                         [docLocal EXCEPT
                             !.key = encryptionKey,
                             !.script = UpdatedScript(script, docArgs.input, now)])
    /\ UNCHANGED scriptsStore

\* decryptWithKey settled (lines 407-412).  A failure rejects.  Otherwise
\* getScript resolves the record with its plaintext; updateScript merges,
\* stamps updatedAt and awaits encryptWithKey with the key as it is now.
ReadScriptDecrypted ==
    /\ docPc = "read_decrypt"
    /\ DocStep
    /\ LET decrypted == DecryptWithKey(docLocal.script.content, docLocal.key)
           script == Merge(docLocal.script, [content |-> decrypted.value])
       IN  IF ~decrypted.ok
           THEN DocRejects(decrypted.value)
           ELSE IF docArgs.op = "getScript"
                THEN DocResolves(script)
                ELSE DocGoes("update_encrypt",
                         [docLocal EXCEPT
                             !.key = encryptionKey,
                             !.script = UpdatedScript(script, docArgs.input, now)])
    /\ UNCHANGED scriptsStore

\* encryptWithKey settled (line 379): with a null key crypto.subtle.encrypt
\* rejects and so does updateScript; otherwise store.put is requested.
UpdateScriptEncrypted(iv) ==
    /\ docPc = "update_encrypt"
    /\ DocStep
    /\ IF docLocal.key = Null
       THEN DocRejects("TypeError")
       ELSE DocGoes("update_put",
                [docLocal EXCEPT
                    !.blob = EncryptWithKey(docLocal.script.content, docLocal.key, iv)])
    /\ UNCHANGED scriptsStore

\* store.put succeeded (lines 385-387).
UpdateScriptPut ==
    /\ docPc = "update_put"
    /\ DocStep
    /\ scriptsStore' = Put(scriptsStore, Merge(docLocal.script, [content |-> docLocal.blob]))
    /\ DocResolves(docLocal.script)

\* getAllScripts(), lines 418-425: the guard, then the cursor is opened.
GetAllScriptsCall ==
    /\ DocCalled("getAllScripts", 0, Null)
    /\ IF RequireUnlocked
       THEN DocGoes("all_cursor", NoDocLocal)
       ELSE DocRejects(NotUnlocked)
    /\ UNCHANGED <<scriptsStore, uuidCtr>>

\* The cursor ran to its end (lines 428-436); every record is handed to
\* decryptWithKey with the key as it is now (lines 440-445).
GetAllScriptsRead ==
    /\ docPc = "all_cursor"
    /\ DocStep
    /\ DocGoes("all_decrypt",
           [docLocal EXCEPT !.key = encryptionKey, !.list = CursorPrev(scriptsStore)])
    /\ UNCHANGED scriptsStore

\* A getAllScripts that settles each decryptWithKey on its own and resolves
\* with the documents that decrypted.
GetAllScriptsDecryptedPartial ==
    /\ docPc = "all_decrypt"
    /\ DocStep
    /\ LET readable ==
               SelectSeq(docLocal.list,
                         LAMBDA record : DecryptWithKey(record.content, docLocal.key).ok)
       IN  DocResolves([i \in DOMAIN readable |->
                   Merge(readable[i],
                         [content |-> DecryptWithKey(readable[i].content,
                                                     docLocal.key).value])])
    /\ UNCHANGED scriptsStore

\* Promise.all settled (lines 440-447): rejected when one decryptWithKey
\* threw, the decrypted list otherwise.
GetAllScriptsDecrypted ==
    /\ docPc = "all_decrypt"
    /\ DocStep
    /\ LET decrypted ==
               [i \in DOMAIN docLocal.list |->
                   DecryptWithKey(docLocal.list[i].content, docLocal.key)]
       IN  IF \E i \in DOMAIN decrypted : ~decrypted[i].ok
           THEN DocRejects(DecryptError)
           ELSE DocResolves([i \in DOMAIN docLocal.list |->
                        Merge(docLocal.list[i], [content |-> decrypted[i].value])])
    /\ UNCHANGED scriptsStore

\* deleteScript(id), lines 450-456: its guard, then store.delete is requested.
DeleteScriptCall(id) ==
    /\ DocCalled("deleteScript", id, Null)
    /\ IF RequireDeleteAllowed
       THEN DocGoes("delete_request", NoDocLocal)
       ELSE DocRejects(NotUnlocked)
    /\ UNCHANGED <<scriptsStore, uuidCtr>>

\* store.delete succeeded (lines 456-458).
DeleteScriptDone ==
    /\ docPc = "delete_request"
    /\ DocStep
    /\ scriptsStore' = Delete(scriptsStore, docArgs.id)
    /\ DocResolves(Null)

\* The request or crypto call the operation is suspended on fails: nothing
\* is written and the operation rejects.
DocThrows ==
    /\ docPc # "idle"
    /\ DocStep
    /\ DocRejects(StorageError)
    /\ UNCHANGED scriptsStore

\* ---------------------------------------------------------------- settings
\* validateSettings(settings), lines 67-111: the fields present are tested
\* against their ranges.
validateSettings(settings) ==
    LET has(k) == k \in DOMAIN settings
        errors ==
            (IF has("defaultFontSize")
                 /\ (settings.defaultFontSize < 24 \/ settings.defaultFontSize > 120)
             THEN {"defaultFontSize"} ELSE {})
            \cup (IF has("sessionTimeout")
                      /\ (settings.sessionTimeout < 300000
                          \/ settings.sessionTimeout > 28800000)
                  THEN {"sessionTimeout"} ELSE {})
            \cup (IF has("inactivityTimeout")
                      /\ (settings.inactivityTimeout < 300000
                          \/ settings.inactivityTimeout > 7200000)
                  THEN {"inactivityTimeout"} ELSE {})
    IN  [isValid |-> errors = {}, errors |-> errors]

\* What getSettings resolves with (lines 471-481): request.result || the
\* defaults.  Nothing is written.
DefaultSettings ==
    [id |-> "settings", defaultFontSize |-> 48, sessionTimeout |-> 7200000,
     inactivityTimeout |-> 1800000]

getSettings == IF settingsRecord = Absent THEN DefaultSettings ELSE settingsRecord

\* A step of updateSettings leaves all but the settings record and the
\* call's own state as it is.
SettingsStep ==
    /\ UnlockStays
    /\ DisturbedStays
    /\ DocStays
    /\ UNCHANGED <<settingsStore, sessionExpiry, sessionVars, pageVars, clockVars,
                   saltCtr, uiVars, createdPass>>

\* getSettings() is called, lines 463-469: the guard if (!this.db) throw,
\* then the get request in a readonly transaction is awaited.
GetSettingsCall ==
    /\ setPc = "idle"
    /\ SettingsStep
    /\ setArgs' = Null
    /\ IF db
       THEN /\ setPc' = "read"
            /\ setResult' = NoSetResult
            /\ Event("settings_step")
       ELSE /\ setPc' = "idle"
            /\ setResult' = [ok |-> FALSE, error |-> NotUnlocked, value |-> Null]
            /\ Event("settings_got")
    /\ UNCHANGED <<settingsRecord, setLocal>>

\* The get succeeded (lines 471-482): the record, or the defaults, is the
\* result; the store is not written.
GetSettingsGot ==
    /\ setPc = "read"
    /\ SettingsStep
    /\ setPc' = "idle"
    /\ setResult' = [ok |-> TRUE, error |-> "", value |-> getSettings]
    /\ Event("settings_got")
    /\ UNCHANGED <<settingsRecord, setArgs, setLocal>>

\* updateSettings(settings), lines 487-490: the guard if (!this.db) throw,
\* then getSettings, whose get request is awaited.
UpdateSettingsCall(settings) ==
    /\ setPc = "idle"
    /\ SettingsStep
    /\ setArgs' = settings
    /\ IF db
       THEN /\ setPc' = "get"
            /\ setResult' = NoSetResult
            /\ Event("settings_step")
       ELSE /\ setPc' = "idle"
            /\ setResult' = [ok |-> FALSE, error |-> NotUnlocked, value |-> Null]
            /\ Event("settings_return")
    /\ UNCHANGED <<settingsRecord, setLocal>>

\* getSettings resolved (line 489); updatedSettings is built (line 490) and
\* its put is requested.
UpdateSettingsGot ==
    /\ setPc = "get"
    /\ SettingsStep
    /\ setLocal' = Merge(Merge(getSettings, setArgs), [id |-> "settings"])
    /\ setPc' = "put"
    /\ Event("settings_step")
    /\ UNCHANGED <<settingsRecord, setArgs, setResult>>

\* The put succeeded (lines 492-498): the record is replaced and
\* updatedSettings is the result.
UpdateSettingsPut ==
    /\ setPc = "put"
    /\ SettingsStep
    /\ settingsRecord' = setLocal
    /\ setPc' = "idle"
    /\ setLocal' = Null
    /\ setResult' = [ok |-> TRUE, error |-> "", value |-> setLocal]
    /\ Event("settings_return")
    /\ UNCHANGED setArgs

\* The request updateSettings is suspended on fails (lines 483 and 499).
UpdateSettingsThrows ==
    /\ setPc # "idle"
    /\ SettingsStep
    /\ setPc' = "idle"
    /\ setLocal' = Null
    /\ setResult' = [ok |-> FALSE, error |-> StorageError, value |-> Null]
    /\ Event("settings_return")
    /\ UNCHANGED <<settingsRecord, setArgs>>

\* SettingsDialog.onSubmit (settings-dialog.tsx lines 74-85): the form's
\* minutes become milliseconds and the provider's updateSettings passes
\* them to db.updateSettings.
SettingsDialogSubmit(values) ==
    UpdateSettingsCall(
        [defaultFontSize |-> values.defaultFontSize,
         sessionTimeout |-> values.sessionTimeout * 60000,
         inactivityTimeout |-> values.inactivityTimeout * 60000])

\* ----------------------------------------------------------- specification
\* The two strong passphrases of the spec's examples.
RightPass == CHOOSE p \in Passphrases : p.text = "Str0ng!Passw0rd123"
WrongPass == CHOOSE p \in Passphrases : p.text = "WrongPass!123"

\* A locked page over a vault that a first-time unlock with RightPass
\* created earlier: what SpecVault reaches by that unlock, lock() and the
\* reload.
VaultExists ==
    /\ settingsStore =
           [k \in SettingsKeys |->
               IF k = "encryption_salt" THEN Btoa([bytes |-> 1])
               ELSE EncryptWithKey(Marker, DeriveKey(RightPass, [bytes |-> 1]), 1)]
    /\ sessionExpiry = Absent
    /\ db = FALSE
    /\ encryptionKey = Null
    /\ keySalt = Null
    /\ sessionCheckInterval = FALSE
    /\ inactivityTimeoutId = Null
    /\ boundFocusHandler = FALSE
    /\ boundBlurHandler = FALSE
    /\ liveIntervals = 0
    /\ pendingTimeouts = {}
    /\ focusListeners = 0
    /\ blurListeners = 0
    /\ hasFocus = TRUE
    /\ reloadPending = FALSE
    /\ now = 0
    /\ advances = 0
    /\ unlockPc = "idle"
    /\ unlockArgs = NoArgs
    /\ unlockLocal = NoLocal
    /\ saltCtr = 1
    /\ screenMounted = TRUE
    /\ isCheckingVault = TRUE
    /\ isFirstTime = FALSE
    /\ lastEvent = "reload"
    /\ lockDroppedKey = FALSE
    /\ unlockResult = FALSE
    /\ unlockDisturbed = FALSE
    /\ createdPass = RightPass
    /\ scriptsStore = << >>
    /\ uuidCtr = 0
    /\ docPc = "idle"
    /\ docArgs = NoDocArgs
    /\ docLocal = NoDocLocal
    /\ docResult = NoDocResult
    /\ settingsRecord = Absent
    /\ setPc = "idle"
    /\ setArgs = Null
    /\ setLocal = Null
    /\ setResult = NoSetResult
    /\ crypto = NoCrypto
    /\ teleprompter = Null

\* That page, with the DatabaseService driven by its callers directly.
InitVaultExists ==
    /\ VaultExists
    /\ voice = NewVoiceService(FALSE)
    /\ context = Null
    /\ providerCall = NoProviderCall

\* That page, with the StorageProvider newly mounted over the
\* DatabaseService.
InitProvider ==
    /\ VaultExists
    /\ voice = NewVoiceService(FALSE)
    /\ context = NoContext
    /\ providerCall = Mounting

\* That page with a new VoiceService, on either kind of engine.
InitVoice ==
    /\ VaultExists
    /\ voice \in {NewVoiceService(stopThrows) : stopThrows \in BOOLEAN}
    /\ context = Null
    /\ providerCall = NoProviderCall

\* The vault and its unlock: every unlock call from an empty origin, direct
\* or through the unlock screen, with lock() and reloads.
VaultNext ==
    \/ \E p \in Passphrases, first \in BOOLEAN : UnlockCall(p, first)
    \/ UnlockInitialized
    \/ UnlockGotSalt
    \/ UnlockDerived
    \/ UnlockSaltStored
    \/ \E iv \in 1..MaxIV : UnlockTokenEncrypted(iv)
    \/ UnlockTokenStored
    \/ UnlockTokenRead
    \/ UnlockValidated
    \/ UnlockThrows
    \/ LockCall
    \/ Reload
    \/ \E outcome \in {"ok", "open_failed", "get_failed"} : CheckExistingVault(outcome)
    \/ \E p, c \in Passphrases : HandleUnlock(p, c)

SpecVault == Init /\ [][VaultNext]_vars

\* The lock lifecycle over an existing vault: returning-user unlocks with
\* the right and a wrong passphrase, lock(), the clock, the session check,
\* focus and blur, the inactivity timeout, reloads.
LifecycleNext ==
    \/ \E p \in {RightPass, WrongPass} : UnlockCall(p, FALSE)
    \/ UnlockInitialized
    \/ UnlockGotSalt
    \/ UnlockDerived
    \/ UnlockTokenRead
    \/ UnlockValidated
    \/ LockCall
    \/ SessionCheck
    \/ FocusEvent
    \/ BlurEvent
    \/ \E timer \in pendingTimeouts : InactivityFires(timer)
    \/ \E d \in Durations : Advance(d)
    \/ Reload

SpecLifecycle == InitVaultExists /\ [][LifecycleNext]_vars

\* The script operations over an existing vault, with returning-user
\* unlocks, lock(), reloads and the clock.  One caller drives the vault: a
\* script operation is called while no unlock call is in flight, and unlock
\* while no script operation is in flight and no session timer is alive;
\* lock() and a reload cut in at any await.  The IV drawn by encryptWithKey
\* is the same one throughout (SpecVault and SpecOverlap vary it).
ScriptsNext ==
    \/ /\ docPc = "idle"
       /\ liveIntervals = 0
       /\ \E p \in {RightPass, WrongPass} : UnlockCall(p, FALSE)
    \/ UnlockInitialized
    \/ UnlockGotSalt
    \/ UnlockDerived
    \/ UnlockTokenRead
    \/ UnlockValidated
    \/ LockCall
    \/ Reload
    \/ advances < MaxScriptAdvances /\ Advance(CheckPeriod)
    \/ unlockPc = "idle" /\ \E script \in NewScripts : SaveScriptCall(script)
    \/ unlockPc = "idle" /\ \E id \in 1..MaxScripts : GetScriptCall(id)
    \/ unlockPc = "idle" /\ \E id \in 1..MaxScripts, updates \in Updates :
                                UpdateScriptCall(id, updates)
    \/ unlockPc = "idle" /\ GetAllScriptsCall
    \/ unlockPc = "idle" /\ \E id \in 1..MaxScripts : DeleteScriptCall(id)
    \/ SaveScriptEncrypted(1)
    \/ SaveScriptAdded
    \/ ReadScriptGot
    \/ ReadScriptDecrypted
    \/ UpdateScriptEncrypted(1)
    \/ UpdateScriptPut
    \/ GetAllScriptsRead
    \/ GetAllScriptsDecrypted
    \/ DeleteScriptDone
    \/ DocThrows

SpecScripts == InitVaultExists /\ [][ScriptsNext]_vars

\* The settings record over an existing vault: updateSettings, directly and
\* from the settings dialog, with a returning-user unlock, lock(), focus and
\* blur, the clock and reloads.
SettingsNext ==
    \/ /\ setPc = "idle"
       /\ liveIntervals = 0
       /\ UnlockCall(RightPass, FALSE)
    \/ UnlockInitialized
    \/ UnlockGotSalt
    \/ UnlockDerived
    \/ UnlockTokenRead
    \/ UnlockValidated
    \/ LockCall
    \/ Reload
    \/ FocusEvent
    \/ BlurEvent
    \/ advances < MaxSettingsAdvances /\ Advance(CheckPeriod)
    \/ unlockPc = "idle" /\ \E settings \in SettingsUpdates : UpdateSettingsCall(settings)
    \/ unlockPc = "idle" /\ isUnlocked
           /\ \E values \in SettingsFormValues : SettingsDialogSubmit(values)
    \/ unlockPc = "idle" /\ GetSettingsCall
    \/ GetSettingsGot
    \/ UpdateSettingsGot
    \/ UpdateSettingsPut
    \/ UpdateSettingsThrows

SpecSettings == InitVaultExists /\ [][SettingsNext]_vars

\* saveScript, getScript and getAllScripts called at any time, also while a
\* returning-user unlock call is in flight, with lock() and reloads.
OverlapNext ==
    \/ liveIntervals = 0 /\ \E p \in {RightPass, WrongPass} : UnlockCall(p, FALSE)
    \/ UnlockInitialized
    \/ UnlockGotSalt
    \/ UnlockDerived
    \/ UnlockTokenRead
    \/ UnlockValidated
    \/ LockCall
    \/ Reload
    \/ \E script \in NewScripts : SaveScriptCall(script)
    \/ \E iv \in 1..MaxIV : SaveScriptEncrypted(iv)
    \/ SaveScriptAdded
    \/ \E id \in 1..MaxScripts : GetScriptCall(id)
    \/ ReadScriptGot
    \/ ReadScriptDecrypted
    \/ GetAllScriptsCall
    \/ GetAllScriptsRead
    \/ GetAllScriptsDecrypted
    \/ DocThrows

SpecOverlap == InitVaultExists /\ [][OverlapNext]_vars

\* ------------------------------------------------------ the StorageProvider
\* The steps of the provider that are no step of a DatabaseService method
\* leave the DatabaseService, its stores and the page as they are.
ProviderStep ==
    /\ UNCHANGED settingsVars
    /\ UnlockStays
    /\ DisturbedStays
    /\ DocStays
    /\ lockDroppedKey' = FALSE
    /\ UNCHANGED <<crypto, teleprompter, voice>>
    /\ UNCHANGED <<settingsStore, sessionVars, pageVars, clockVars, saltCtr,
                   isCheckingVault, isFirstTime, createdPass>>

\* Navigation between the home page and the scripts pages (page.tsx lines
\* 69-73, scripts/layout.tsx lines 23-27): the StorageProvider of the page
\* left is unmounted and the one of the page entered is mounted, over the
\* same DatabaseService.
Remount ==
    /\ context # Null
    /\ providerCall.op = "none"
    /\ UNCHANGED settingsVars
    /\ UnlockStays
    /\ DisturbedStays
    /\ DocStays
    /\ lockDroppedKey' = FALSE
    /\ lastEvent' = "remount"
    /\ context' = NoContext
    /\ providerCall' = Mounting
    /\ screenMounted' = TRUE
    /\ isCheckingVault' = TRUE
    /\ isFirstTime' = FALSE
    /\ UNCHANGED <<crypto, teleprompter, voice>>
    /\ UNCHANGED <<settingsStore, sessionExpiry, sessionVars, pageVars, clockVars,
                   saltCtr, createdPass>>

\* The mount effect checkSession (lines 573-587): with an expiry in the
\* future and a key live, isUnlocked is set and loadScripts and getSettings
\* are called; otherwise the expiry slot is removed.
CheckSession ==
    /\ context # Null
    /\ providerCall.then = "checkSession"
    /\ ProviderStep
    /\ IF sessionExpiry # Absent /\ now < ParseInt(sessionExpiry) /\ isUnlocked
       THEN /\ screenMounted' = FALSE
            /\ providerCall' = [providerCall EXCEPT !.then = "loadScripts"]
            /\ UNCHANGED sessionExpiry
       ELSE /\ sessionExpiry' = Absent
            /\ providerCall' = NoProviderCall
            /\ UNCHANGED screenMounted
    /\ lastEvent' = "check_session"
    /\ UNCHANGED context

\* The provider call in flight goes on to its next call: loadScripts after
\* db.unlock, db.saveScript and db.updateScript (lines 595, 629, 635),
\* db.getSettings after the loadScripts of unlock (line 596), db.getScript
\* after the loadScripts of updateScript (line 637).
ProviderContinues ==
    /\ context # Null
    /\ CASE providerCall.then = "loadScripts" -> GetAllScriptsCall
         [] providerCall.then = "getSettings" -> GetSettingsCall
         [] providerCall.then = "getScript" -> GetScriptCall(providerCall.id)
         [] OTHER -> FALSE

\* The unlock screen calls the provider's unlock (lines 589-591).
ProviderUnlock(passphrase) ==
    /\ context # Null
    /\ providerCall.op = "none"
    /\ HandleUnlock(passphrase, passphrase)

\* StorageProvider.lock(), lines 607-613: db.lock(), then isUnlocked is
\* cleared (the unlock screen is mounted anew) and scripts, currentScript
\* and settings are reset.  The Lock button is on the page only while
\* isUnlocked is true (page.tsx lines 16-18).
ProviderLock ==
    /\ context # Null
    /\ ~screenMounted
    /\ UNCHANGED settingsVars
    /\ lock(pendingTimeouts)
    /\ lastEvent' = "provider_lock"
    /\ screenMounted' = TRUE
    /\ isCheckingVault' = TRUE
    /\ isFirstTime' = FALSE
    /\ context' = [context EXCEPT !.scripts = << >>, !.currentScript = Null,
                                  !.settings = Null]
    /\ UNCHANGED providerCall
    /\ UnlockStays
    /\ DocStays
    /\ UNCHANGED <<settingsStore, clockVars, saltCtr, createdPass>>

\* A view calls loadScripts, saveScript or updateScript of the context
\* (lines 615-640); the views are rendered while isUnlocked is true.
ProviderLoadScripts ==
    /\ context # Null
    /\ ~screenMounted
    /\ providerCall.op = "none"
    /\ GetAllScriptsCall

ProviderSaveScript(script) ==
    /\ context # Null
    /\ ~screenMounted
    /\ providerCall.op = "none"
    /\ SaveScriptCall(script)

ProviderUpdateScript(id, updates) ==
    /\ context # Null
    /\ ~screenMounted
    /\ providerCall.op = "none"
    /\ UpdateScriptCall(id, updates)

\* A view calls setCurrentScript with a document of the list.
SetCurrentScript(script) ==
    /\ context # Null
    /\ ~screenMounted
    /\ context.currentScript # script
    /\ ProviderStep
    /\ context' = [context EXCEPT !.currentScript = script]
    /\ lastEvent' = "set_current_script"
    /\ UNCHANGED <<sessionExpiry, screenMounted, providerCall>>

\* The StorageProvider over an existing vault: the unlock screen, the
\* provider's unlock, lock, loadScripts, saveScript, updateScript and
\* setCurrentScript, with navigation, the session check, the clock and
\* reloads.  One provider call is in flight at a
\* time, with lock() cutting in at any await; the mount effect and the
\* continuation of an await that has settled run before anything else.
ProviderNext ==
    \/ CheckSession
    \/ ProviderContinues
    \/ providerCall.then = "none" /\ CheckExistingVault("ok")
    \/ providerCall.then = "none"
           /\ \E p \in {RightPass, WrongPass} : ProviderUnlock(p)
    \/ providerCall.then = "none" /\ UnlockInitialized
    \/ providerCall.then = "none" /\ UnlockGotSalt
    \/ providerCall.then = "none" /\ UnlockDerived
    \/ providerCall.then = "none" /\ UnlockTokenRead
    \/ providerCall.then = "none" /\ UnlockValidated
    \/ providerCall.then = "none" /\ ProviderLock
    \/ providerCall.then = "none" /\ ProviderLoadScripts
    \/ providerCall.then = "none" /\ \E script \in NewScripts : ProviderSaveScript(script)
    \/ providerCall.then = "none"
           /\ \E id \in 1..MaxScripts, updates \in Updates : ProviderUpdateScript(id, updates)
    \/ providerCall.then = "none"
           /\ \E i \in DOMAIN context.scripts : SetCurrentScript(context.scripts[i])
    \/ providerCall.then = "none" /\ SaveScriptEncrypted(1)
    \/ providerCall.then = "none" /\ SaveScriptAdded
    \/ providerCall.then = "none" /\ ReadScriptGot
    \/ providerCall.then = "none" /\ ReadScriptDecrypted
    \/ providerCall.then = "none" /\ UpdateScriptEncrypted(1)
    \/ providerCall.then = "none" /\ UpdateScriptPut
    \/ providerCall.then = "none" /\ GetAllScriptsRead
    \/ providerCall.then = "none" /\ GetAllScriptsDecrypted
    \/ providerCall.then = "none" /\ GetSettingsGot
    \/ providerCall.then = "none" /\ UpdateSettingsThrows
    \/ providerCall.then = "none" /\ Remount
    \/ providerCall.then = "none" /\ SessionCheck
    \/ providerCall.then = "none" /\ advances < MaxProviderAdvances
           /\ Advance(SessionTimeout)
    \/ providerCall.then = "none" /\ Reload

SpecProvider == InitProvider /\ [][ProviderNext]_vars

\* ------------------------------------------------- the cipher on its own
\* The plaintexts given to encryptWithKey: every string of the code units
\* followed, up to MaxTextLength of them.
Plaintexts == UNION { [1..n -> CodeUnits] : n \in 0..MaxTextLength }

\* The keys given: deriveKey of two passphrases with one salt.
Keys == { DeriveKey(p, [bytes |-> 1]) : p \in {RightPass, WrongPass} }

\* What can happen to a blob between encryptWithKey and decryptWithKey: a
\* byte of the nonce changed, a byte of the ciphertext or tag changed, bytes
\* cut off the end, or the text made something atob does not accept.
Changes == {"nonce", "sealed", "cut", "malformed"}

Changed(blob, change) ==
    IF change = "nonce" THEN Btoa([Atob(blob) EXCEPT !.iv = @ + 1])
    ELSE IF change = "sealed" THEN Btoa([Atob(blob) EXCEPT !.sealed = [changed |-> @]])
    ELSE IF change = "cut" THEN Btoa([Atob(blob) EXCEPT !.sealed = [cut |-> @]])
    ELSE [text |-> blob]

\* encryptWithKey(data, key) is called and resolves (part_009, lines 30-44).
EncryptWithKeyCall(data, key, iv) ==
    /\ crypto = NoCrypto
    /\ crypto' = [NoCrypto EXCEPT !.data = data, !.key = key,
                                  !.blob = EncryptWithKey(data, key, iv)]
    /\ UNCHANGED <<appVars, providerVars, teleprompter, voice>>

\* The blob is changed before it is handed back.
BlobChanged(change) ==
    /\ crypto.blob # Null
    /\ crypto.change = "none"
    /\ crypto.result = Null
    /\ crypto' = [crypto EXCEPT !.change = change, !.blob = Changed(@, change)]
    /\ UNCHANGED <<appVars, providerVars, teleprompter, voice>>

\* decryptWithKey(blob, key) is called and settles (part_009, lines 46-64).
DecryptWithKeyCall(key) ==
    /\ crypto.blob # Null
    /\ crypto.result = Null
    /\ crypto' = [crypto EXCEPT !.usedKey = key, !.result = DecryptWithKey(crypto.blob, key)]
    /\ UNCHANGED <<appVars, providerVars, teleprompter, voice>>

CryptoNext ==
    \/ \E data \in Plaintexts, key \in Keys, iv \in 1..MaxIV :
           EncryptWithKeyCall(data, key, iv)
    \/ \E change \in Changes : BlobChanged(change)
    \/ \E key \in Keys : DecryptWithKeyCall(key)

SpecCrypto == Init /\ [][CryptoNext]_vars

\* ------------------------------------------------------------ the teleprompter
\* What updateScriptSetting is given: one presentation field at a time
\* (the buttons, sliders and switches of the settings panel).
SettingUpdates == { [fontSize |-> 52], [scrollSpeed |-> 3] }

\* The provider's updateScript(id, updates) as the teleprompter calls it
\* (db.ts lines 633-640), entered at db.updateScript (line 367) and the
\* getScript in it (line 370): rejected by either guard, suspended on
\* store.get otherwise.  `current` is the closure's test of line 636.
UpdateCall(id, updates) ==
    [pc |-> IF RequireUnlocked THEN "get" ELSE "failed",
     id |-> id, updates |-> updates,
     current |-> (context.currentScript # Null /\ context.currentScript.id = id),
     reread |-> FALSE, key |-> Null, script |-> Null, blob |-> Null, list |-> << >>]

\* A step of the teleprompter or of one of its calls leaves the
\* DatabaseService, the settings, the page and the provider call in flight
\* as they are.
TeleprompterStep ==
    /\ UNCHANGED settingsVars
    /\ UnlockStays
    /\ DisturbedStays
    /\ UNCHANGED <<uuidCtr, docPc, docLocal>>
    /\ docArgs' = IF docPc = "idle" THEN NoDocArgs ELSE docArgs
    /\ docResult' = NoDocResult
    /\ lockDroppedKey' = FALSE
    /\ lastEvent' = "teleprompter"
    /\ UNCHANGED <<settingsStore, sessionExpiry, sessionVars, pageVars, clockVars,
                   saltCtr, uiVars, createdPass, crypto, providerCall, voice>>

\* The home page or the present page renders a TeleprompterDisplay over a
\* document of the provider's list (page.tsx lines 20-27, present/page.tsx
\* lines 15-38): useState(initialScript), no timer, no call.  `debounced`
\* tells the component of part_004 from the one of part_005.
OpenTeleprompter(debounced, script) ==
    /\ teleprompter = Null
    /\ context # Null
    /\ ~screenMounted
    /\ providerCall.op = "none"
    /\ \E i \in DOMAIN context.scripts : context.scripts[i] = script
    /\ TeleprompterStep
    /\ teleprompter' =
           [debounced |-> debounced, script |-> script, changed |-> {},
            timers |-> << >>, timeoutId |-> 0, timerCtr |-> 0, calls |-> << >>]
    /\ UNCHANGED <<scriptsStore, context>>

\* updateScriptSetting(updates) of part_005, lines 129-133: the local state
\* takes the updates and the provider's updateScript is called at once.
UpdateScriptSetting(updates) ==
    /\ teleprompter # Null
    /\ ~teleprompter.debounced
    /\ Len(teleprompter.calls) < MaxSettingChanges
    /\ TeleprompterStep
    /\ teleprompter' =
           [teleprompter EXCEPT
               !.script = Merge(@, updates),
               !.changed = @ \cup DOMAIN updates,
               !.calls = Append(@, UpdateCall(teleprompter.script.id, updates))]
    /\ UNCHANGED <<scriptsStore, context>>

\* updateScriptSetting(updates) of part_004, lines 306-311, with debounce,
\* lines 64-70: the local state takes the updates; the timer the debounced
\* function set last is cleared and a new one is set with these arguments.
DebouncedUpdateScriptSetting(updates) ==
    /\ teleprompter # Null
    /\ teleprompter.debounced
    /\ teleprompter.timerCtr < MaxSettingChanges
    /\ TeleprompterStep
    /\ LET timeoutId == teleprompter.timerCtr + 1
           kept == DOMAIN teleprompter.timers \ {teleprompter.timeoutId}
       IN  teleprompter' =
               [teleprompter EXCEPT
                   !.script = Merge(@, updates),
                   !.changed = @ \cup DOMAIN updates,
                   !.timers = [t \in kept \cup {timeoutId} |->
                                   IF t = timeoutId
                                   THEN [id |-> teleprompter.script.id, updates |-> updates]
                                   ELSE teleprompter.timers[t]],
                   !.timeoutId = timeoutId,
                   !.timerCtr = timeoutId]
    /\ UNCHANGED <<scriptsStore, context>>

\* A timer of debounce fires, 300 ms after it was set (part_004 lines 68 and
\* 300-302): updateScript is called with the arguments the timer holds.
DebounceFires(t) ==
    /\ teleprompter # Null
    /\ t \in DOMAIN teleprompter.timers
    /\ TeleprompterStep
    /\ teleprompter' =
           [teleprompter EXCEPT
               !.timers = [u \in DOMAIN @ \ {t} |-> @[u]],
               !.calls = Append(@, UpdateCall(teleprompter.timers[t].id,
                                              teleprompter.timers[t].updates))]
    /\ UNCHANGED <<scriptsStore, context>>

\* Call c of the teleprompter is suspended at pc.  (Where a step renders
\* the StorageProvider, updateScript is a new function, so useMemo, part_004
\* lines 299-304, makes a new debounced function whose timeoutId is unset;
\* the timer of the old one stays pending.)
CallAt(c, pc) ==
    /\ teleprompter # Null
    /\ c \in DOMAIN teleprompter.calls
    /\ teleprompter.calls[c].pc = pc
    /\ TeleprompterStep

\* store.get resolved (db.ts lines 400-408): with no record getScript
\* resolves null, which updateScript answers with 'Script not found' (line
\* 371) and the re-read of line 637 hands to setCurrentScript; a record is
\* handed to decryptWithKey with the key as it is now.
UpdateCallGot(c) ==
    /\ CallAt(c, "get")
    /\ LET call == teleprompter.calls[c]
       IN  IF call.id \in DOMAIN scriptsStore
           THEN /\ teleprompter' =
                       [teleprompter EXCEPT
                           !.calls[c] = [call EXCEPT !.pc = "decrypt", !.key = encryptionKey,
                                            !.script = scriptsStore[call.id]]]
                /\ UNCHANGED context
           ELSE IF call.reread
                THEN /\ teleprompter' =
                            [teleprompter EXCEPT
                                !.timeoutId = 0,
                                !.calls[c] = [call EXCEPT !.pc = "done"]]
                     /\ context' = [context EXCEPT !.currentScript = Null]
                ELSE /\ teleprompter' =
                            [teleprompter EXCEPT
                                !.calls[c] = [call EXCEPT !.pc = "failed"]]
                     /\ UNCHANGED context
    /\ UNCHANGED scriptsStore

\* decryptWithKey settled (lines 407-412).  updateScript merges, stamps
\* updatedAt (lines 373-377) and awaits encryptWithKey with the key as it is
\* now (line 379); the re-read sets currentScript (line 638).
UpdateCallDecrypted(c) ==
    /\ CallAt(c, "decrypt")
    /\ LET call == teleprompter.calls[c]
           decrypted == DecryptWithKey(call.script.content, call.key)
           script == Merge(call.script, [content |-> decrypted.value])
       IN  IF ~decrypted.ok
           THEN /\ teleprompter' = [teleprompter EXCEPT !.calls[c] = [call EXCEPT !.pc = "failed"]]
                /\ UNCHANGED context
           ELSE IF call.reread
                THEN /\ teleprompter' =
                            [teleprompter EXCEPT
                                !.timeoutId = 0,
                                !.calls[c] = [call EXCEPT !.pc = "done"]]
                     /\ context' = [context EXCEPT !.currentScript = script]
                ELSE /\ teleprompter' = [teleprompter EXCEPT !.calls[c] = [call EXCEPT
                                        !.pc = "encrypt", !.key = encryptionKey,
                                        !.script = UpdatedScript(script, call.updates, now)]]
                     /\ UNCHANGED context
    /\ UNCHANGED scriptsStore

\* encryptWithKey settled (line 379): it rejects with a null key; otherwise
\* store.put is requested (lines 381-384).
UpdateCallEncrypted(c, iv) ==
    /\ CallAt(c, "encrypt")
    /\ LET call == teleprompter.calls[c]
       IN  IF call.key = Null
           THEN teleprompter' = [teleprompter EXCEPT !.calls[c] = [call EXCEPT !.pc = "failed"]]
           ELSE teleprompter' = [teleprompter EXCEPT !.calls[c] = [call EXCEPT
                                !.pc = "put",
                                !.blob = EncryptWithKey(call.script.content, call.key, iv)]]
    /\ UNCHANGED <<scriptsStore, context>>

\* store.put succeeded (lines 385-387): db.updateScript resolves and the
\* provider's loadScripts begins (lines 635, 616-618): isLoading is set and
\* the cursor is opened; with no live key getAllScripts throws, the error
\* is reported, isLoading is cleared (lines 620-624), and the getScript of
\* line 637 throws in its turn.
UpdateCallPut(c) ==
    /\ CallAt(c, "put")
    /\ LET call == teleprompter.calls[c]
       IN  /\ scriptsStore' =
                  Put(scriptsStore, Merge(call.script, [content |-> call.blob]))
           /\ IF RequireUnlocked
              THEN /\ context' = [context EXCEPT !.isLoading = TRUE]
                   /\ IF context.isLoading
                      THEN teleprompter' =
                               [teleprompter EXCEPT
                                   !.calls[c] = [call EXCEPT !.pc = "load_cursor"]]
                      ELSE teleprompter' =
                               [teleprompter EXCEPT
                                   !.timeoutId = 0,
                                   !.calls[c] = [call EXCEPT !.pc = "load_cursor"]]
              ELSE /\ context' = [context EXCEPT !.isLoading = FALSE]
                   /\ teleprompter' =
                          [teleprompter EXCEPT
                              !.timeoutId = 0,
                              !.calls[c] = [call EXCEPT
                                         !.pc = IF call.current THEN "failed" ELSE "done"]]

\* The cursor ran to its end (lines 428-436); every record is handed to
\* decryptWithKey with the key as it is now (lines 440-445).
UpdateCallCursorRead(c) ==
    /\ CallAt(c, "load_cursor")
    /\ teleprompter' = [teleprompter EXCEPT !.calls[c] = [teleprompter.calls[c] EXCEPT
                       !.pc = "load_decrypt", !.key = encryptionKey,
                       !.list = CursorPrev(scriptsStore)]]
    /\ UNCHANGED <<scriptsStore, context>>

\* Promise.all settled (lines 440-447): loadScripts sets the list or
\* reports the error, and clears isLoading (lines 619-624); updateScript
\* then re-reads the document when its closure's currentScript has the id
\* (lines 636-639).
UpdateCallLoaded(c) ==
    /\ CallAt(c, "load_decrypt")
    /\ LET call == teleprompter.calls[c]
           decrypted ==
               [i \in DOMAIN call.list |-> DecryptWithKey(call.list[i].content, call.key)]
           next == [call EXCEPT
                       !.pc = IF ~call.current THEN "done"
                              ELSE IF RequireUnlocked THEN "get" ELSE "failed",
                       !.reread = call.current, !.list = << >>]
       IN  /\ teleprompter' = [teleprompter EXCEPT !.timeoutId = 0, !.calls[c] = next]
           /\ IF \E i \in DOMAIN decrypted : ~decrypted[i].ok
              THEN context' = [context EXCEPT !.isLoading = FALSE]
              ELSE context' =
                       [context EXCEPT
                           !.isLoading = FALSE,
                           !.scripts =
                               [i \in DOMAIN call.list |->
                                   Merge(call.list[i], [content |-> decrypted[i].value])]]
    /\ UNCHANGED scriptsStore

\* The teleprompter over an existing vault: the provider mounts, the vault
\* is unlocked and documents are saved; then a TeleprompterDisplay of
\* either kind is opened over one of them and its settings are changed,
\* with the debounce timers and the updateScript calls they start running
\* side by side, and the session check cutting in until the page reloads.
TeleprompterNext ==
    \/ CheckSession
    \/ ProviderContinues
    \/ providerCall.then = "none" /\ teleprompter = Null /\ CheckExistingVault("ok")
    \/ providerCall.then = "none" /\ teleprompter = Null /\ ProviderUnlock(RightPass)
    \/ providerCall.then = "none" /\ UnlockInitialized
    \/ providerCall.then = "none" /\ UnlockGotSalt
    \/ providerCall.then = "none" /\ UnlockDerived
    \/ providerCall.then = "none" /\ UnlockTokenRead
    \/ providerCall.then = "none" /\ UnlockValidated
    \/ providerCall.then = "none" /\ teleprompter = Null
           /\ \E script \in NewScripts : ProviderSaveScript(script)
    \/ providerCall.then = "none" /\ SaveScriptEncrypted(1)
    \/ providerCall.then = "none" /\ SaveScriptAdded
    \/ providerCall.then = "none" /\ GetAllScriptsRead
    \/ providerCall.then = "none" /\ GetAllScriptsDecrypted
    \/ providerCall.then = "none" /\ GetSettingsGot
    \/ providerCall.then = "none"
           /\ \E debounced \in BOOLEAN, i \in DOMAIN context.scripts :
                  OpenTeleprompter(debounced, context.scripts[i])
    \/ providerCall.then = "none"
           /\ \E updates \in SettingUpdates : UpdateScriptSetting(updates)
    \/ providerCall.then = "none"
           /\ \E updates \in SettingUpdates : DebouncedUpdateScriptSetting(updates)
    \/ providerCall.then = "none" /\ \E t \in 1..MaxSettingChanges : DebounceFires(t)
    \/ providerCall.then = "none" /\ \E c \in 1..MaxSettingChanges : UpdateCallGot(c)
    \/ providerCall.then = "none" /\ \E c \in 1..MaxSettingChanges : UpdateCallDecrypted(c)
    \/ providerCall.then = "none" /\ \E c \in 1..MaxSettingChanges : UpdateCallEncrypted(c, 1)
    \/ providerCall.then = "none" /\ \E c \in 1..MaxSettingChanges : UpdateCallPut(c)
    \/ providerCall.then = "none" /\ \E c \in 1..MaxSettingChanges : UpdateCallCursorRead(c)
    \/ providerCall.then = "none" /\ \E c \in 1..MaxSettingChanges : UpdateCallLoaded(c)
    \/ providerCall.then = "none" /\ SessionCheck
    \/ providerCall.then = "none" /\ advances < MaxProviderAdvances
           /\ Advance(SessionTimeout)

SpecTeleprompter == InitProvider /\ [][TeleprompterNext]_vars

\* ---------------------------------------------------------- the VoiceService
\* Every step of the VoiceService, its worker or its recorders leaves the
\* rest of the page as it is.
\* startListening(onCommand), lines 123-133.  It returns when the service
\* is listening.  When the model is not ready it awaits initialize(), lines
\* 76-120, which returns at once when the model is ready or a load is in
\* flight (line 77), and otherwise makes the worker, posts 'load' and
\* returns a promise that the worker's messages settle.  Once initialize
\* has returned, startListening sets the callback and awaits getUserMedia.
StartListening ==
    /\ Len(voice.calls) < MaxVoiceCalls
    /\ UNCHANGED <<appVars, crypto, providerVars, teleprompter>>
    /\ IF voice.isListening
       THEN voice' = [voice EXCEPT !.calls = Append(@, "returned"), !.stopped = "no"]
       ELSE IF voice.isReady \/ voice.isInitializing
            THEN voice' = [voice EXCEPT
                              !.calls = Append(@, "media"),
                              !.onCommandCallback = TRUE,
                              !.stopped = "no"]
            ELSE voice' = [voice EXCEPT
                              !.calls = Append(@, "init"),
                              !.isInitializing = TRUE,
                              !.worker = "loading",
                              !.stopped = "no"]

\* The worker posts { type: 'status', status: 'ready' } (lines 18 and
\* 91-95): isReady is set and the promise of initialize resolves, so the
\* call awaiting it sets the callback and awaits getUserMedia (lines
\* 130-133).
WorkerReady ==
    /\ voice.worker = "loading"
    /\ UNCHANGED <<appVars, crypto, providerVars, teleprompter>>
    /\ voice' = [voice EXCEPT
                    !.worker = "ready",
                    !.isReady = TRUE,
                    !.isInitializing = FALSE,
                    !.onCommandCallback =
                        (@ \/ \E c \in DOMAIN voice.calls : voice.calls[c] = "init"),
                    !.calls = [c \in DOMAIN @ |-> IF @[c] = "init" THEN "media" ELSE @[c]]]

\* The worker posts { type: 'error' } for a load that failed (lines 20 and
\* 97-100): the promise of initialize rejects, and with it the
\* startListening call awaiting it (line 127 is outside the try).
WorkerError ==
    /\ voice.worker = "loading"
    /\ UNCHANGED <<appVars, crypto, providerVars, teleprompter>>
    /\ voice' = [voice EXCEPT
                    !.worker = "failed",
                    !.isInitializing = FALSE,
                    !.calls = [c \in DOMAIN @ |-> IF @[c] = "init" THEN "failed" ELSE @[c]]]

\* getUserMedia settled for call c.  Resolved (lines 133-158): a
\* MediaRecorder is made over the stream and started (its tracks live, no
\* onstop handler in flight), isListening is set, and a new interval takes
\* the place of whatever recordingInterval held.  Rejected (lines
\* 159-162): startListening throws.
MediaSettled(c, granted) ==
    /\ c \in DOMAIN voice.calls
    /\ voice.calls[c] = "media"
    /\ UNCHANGED <<appVars, crypto, providerVars, teleprompter>>
    /\ voice' =
           IF ~granted THEN [voice EXCEPT !.calls[c] = "failed"]
           ELSE [voice EXCEPT
                    !.calls[c] = "done",
                    !.recorders =
                        Append(@, [state |-> "recording", tracks |-> TRUE, handlers |-> 0]),
                    !.mediaRecorder = Len(voice.recorders) + 1,
                    !.isListening = TRUE,
                    !.intervals = @ \cup {c},
                    !.recordingInterval = c]

\* Recorder r stops: its state is inactive and its onstop handler begins,
\* suspended in processAudio (lines 143-145).
Stopped(recorders, r) ==
    [recorders EXCEPT ![r].state = "inactive", ![r].handlers = @ + 1]

\* A live interval fires, 3 s after its last run (lines 156-160): the
\* recorder the service holds is stopped when the service is listening and
\* the recorder is recording.
RecordingIntervalFires(i) ==
    /\ i \in voice.intervals
    /\ voice.mediaRecorder # 0
    /\ voice.isListening
    /\ voice.recorders[voice.mediaRecorder].state = "recording"
    /\ UNCHANGED <<appVars, crypto, providerVars, teleprompter>>
    /\ voice' = [voice EXCEPT !.recorders = Stopped(@, voice.mediaRecorder)]

\* processAudio returned in the onstop handler of recorder r (lines
\* 145-150): the recorder the service holds now is started when the service
\* is listening; start() throws on a recorder that is recording.
ChunkProcessed(r) ==
    /\ r \in DOMAIN voice.recorders
    /\ voice.recorders[r].handlers > 0
    /\ UNCHANGED <<appVars, crypto, providerVars, teleprompter>>
    /\ LET done == [voice.recorders EXCEPT ![r].handlers = @ - 1]
       IN  voice' = [voice EXCEPT
                        !.recorders =
                            IF voice.isListening /\ voice.mediaRecorder # 0
                            THEN [done EXCEPT ![voice.mediaRecorder].state = "recording"]
                            ELSE done]

\* stopListening(), lines 167-181: the interval recordingInterval holds is
\* cleared; when the service is listening, the recorder it holds is
\* stopped, its tracks are stopped, and mediaRecorder and isListening are
\* reset; the callback is reset.  stop() on a recorder that is inactive
\* throws InvalidStateError on the engines that follow the older
\* MediaStream Recording text, and stopListening ends there; on the others
\* it does nothing.
StopListening ==
    /\ UNCHANGED <<appVars, crypto, providerVars, teleprompter>>
    /\ LET r == voice.mediaRecorder
           cleared == [voice EXCEPT
                          !.intervals = @ \ {voice.recordingInterval},
                          !.recordingInterval = 0,
                          !.stopped = IF voice.isListening THEN "listening" ELSE "idle"]
       IN  IF r # 0 /\ voice.isListening
           THEN IF voice.recorders[r].state = "inactive" /\ voice.stopThrows
                THEN voice' = cleared
                ELSE voice' =
                         [cleared EXCEPT
                             !.recorders =
                                 [IF voice.recorders[r].state = "recording"
                                  THEN Stopped(@, r) ELSE @
                                     EXCEPT ![r].tracks = FALSE],
                             !.mediaRecorder = 0,
                             !.isListening = FALSE,
                             !.onCommandCallback = FALSE]
           ELSE voice' = [cleared EXCEPT !.onCommandCallback = FALSE]

\* The VoiceService on its own: startListening calls, the worker's load,
\* the microphone prompt, the 3-second recording cycle and stopListening,
\* in every order.
VoiceNext ==
    \/ StartListening
    \/ WorkerReady
    \/ WorkerError
    \/ \E c \in 1..MaxVoiceCalls, granted \in BOOLEAN : MediaSettled(c, granted)
    \/ \E i \in 1..MaxVoiceCalls : RecordingIntervalFires(i)
    \/ \E r \in 1..MaxVoiceCalls : ChunkProcessed(r)
    \/ StopListening

SpecVoice == InitVoice /\ [][VoiceNext]_vars

\* ------------------------------------------------------------------ claims
\* What the settings store holds.
SaltStored == settingsStore["encryption_salt"] # Absent
TokenStored == settingsStore["validation_token"] # Absent
\* The passphrase the stored token was sealed under.
TokenPassphrase == Atob(settingsStore["validation_token"]).sealed.key.pass
\* The step is one of the unlock call in flight.
UnlockStep == lastEvent' \in {"unlock_step", "unlock_return"}
\* The session is Unlocked: a key is live and no unlock call holds a key it
\* has yet to confirm.
Unlocked ==
    /\ isUnlocked
    /\ unlockPc \notin {"store_salt", "token_encrypt", "token_put",
                        "validate_get", "validate_decrypt"}
\* The persisted expiry is a timestamp in the past.
ExpiryPassed == sessionExpiry # Absent /\ ParseInt(sessionExpiry) < now

\* C1: a script operation (saveScript, updateScript, getScript,
\* getAllScripts, deleteScript) called while no key is live rejects with
\* 'Database not unlocked' and leaves the scripts store as it was.
C1_LockedOperationsFail ==
    [][(lastEvent' = "doc_return" /\ ~docArgs'.keyLive)
           => /\ ~docResult'.ok
              /\ docResult'.error = NotUnlocked
              /\ scriptsStore' = scriptsStore]_vars

\* C2: once encryption_salt and validation_token are persisted, no step of
\* any unlock call changes either record.
C2_VaultMetadataImmutable ==
    [][(SaltStored /\ TokenStored) => settingsStore' = settingsStore]_vars

\* C3: after a first-time unlock with passphrase P succeeded, a returning
\* unlock called on a locked session and left to run returns true exactly
\* when its passphrase is P, and when it returns false no key is live.
C3_ReunlockIffSamePassphrase ==
    (/\ lastEvent = "unlock_return"
     /\ ~unlockArgs.isFirstTime
     /\ unlockArgs.locked
     /\ ~unlockDisturbed
     /\ createdPass # Null)
        => /\ unlockResult <=> (unlockArgs.passphrase = createdPass)
           /\ ~unlockResult => encryptionKey = Null

C5_UnlockNeverPartial ==
    /\ (lastEvent = "unlock_return" /\ ~unlockResult)
           => /\ encryptionKey = Null
              /\ settingsStore = unlockArgs.stored
    /\ unlockPc = "idle" => (SaltStored => TokenStored)

\* C6: a first-time unlock with a passphrase that fails the strength policy
\* derives no key and writes nothing to the settings store at any of its
\* steps, and returns false.
C6_WeakPassphraseRejectedFirst ==
    [][(/\ unlockPc # "idle"
        /\ unlockArgs.isFirstTime
        /\ ~validatePassphraseStrength(unlockArgs.passphrase).isValid
        /\ UnlockStep)
           => /\ settingsStore' = settingsStore
              /\ encryptionKey' = Null \/ encryptionKey' = encryptionKey
              /\ lastEvent' = "unlock_return" => ~unlockResult']_vars

\* C7: when lock() has returned, no key is live, the session expiry is
\* cleared, no session-check interval and no inactivity timeout is left
\* running, and no focus or blur listener is left registered.
C7_LockStopsEverything ==
    lastEvent = "lock"
        => /\ encryptionKey = Null
           /\ sessionExpiry = Absent
           /\ liveIntervals = 0
           /\ pendingTimeouts = {}
           /\ focusListeners = 0
           /\ blurListeners = 0

\* C8: a run of the periodic check that finds a key live and the persisted
\* expiry in the past locks: the key is discarded and the expiry cleared.
C8_ExpiredSessionLockedByCheck ==
    [][(lastEvent' = "session_check" /\ isUnlocked /\ ExpiryPassed)
           => /\ encryptionKey' = Null
              /\ sessionExpiry' = Absent
              /\ lockDroppedKey']_vars

\* C8 happens: a run of the check has just discarded a live key.
C8_Witness ==
    /\ lastEvent = "session_check"
    /\ lockDroppedKey
    /\ encryptionKey = Null
    /\ now > SessionTimeout

\* C9: once the clock is past the persisted expiry of a session whose key
\* is live (no inactivity timeout being overdue), a focus or blur event
\* leaves the expiry in the past.
C9_ExpiryIsAbsolute ==
    [][(/\ lastEvent' \in {"focus", "blur"}
        /\ isUnlocked
        /\ ExpiryPassed
        /\ \A timer \in pendingTimeouts : timer.due > now)
           => sessionExpiry' # Absent /\ ParseInt(sessionExpiry') < now']_vars

\* C10: a blur while Unlocked arms an inactivity timeout due
\* InactivityTimeout from now; an inactivity timeout that fires while the
\* document has no focus locks; one that fires while it has focus leaves
\* the key, the expiry, the interval and the listeners as they are.
C10_InactivityTimer ==
    [][/\ (lastEvent' = "blur" /\ Unlocked)
              => /\ inactivityTimeoutId' = [due |-> now + InactivityTimeout]
                 /\ inactivityTimeoutId' \in pendingTimeouts'
       /\ (lastEvent' = "inactivity_timeout" /\ ~hasFocus)
              => /\ encryptionKey' = Null
                 /\ sessionExpiry' = Absent
                 /\ reloadPending'
       /\ (lastEvent' = "inactivity_timeout" /\ hasFocus)
              => UNCHANGED <<encryptionKey, sessionExpiry, liveIntervals,
                             focusListeners, blurListeners, reloadPending>>]_vars

\* C10 happens: an inactivity timeout armed by a blur has fired on an
\* unfocused page and discarded a live key.
C10_Witness ==
    /\ lastEvent = "inactivity_timeout"
    /\ lockDroppedKey
    /\ ~hasFocus
    /\ now >= InactivityTimeout

\* C11: a focus event on an Unlocked session with an inactivity timeout
\* armed and not yet due leaves no inactivity timeout armed and sets the
\* persisted expiry to now + SessionTimeout.
C11_FocusDisarmsTimer ==
    [][(/\ lastEvent' = "focus"
        /\ Unlocked
        /\ pendingTimeouts # {}
        /\ \A timer \in pendingTimeouts : timer.due > now)
           => /\ pendingTimeouts' = {}
              /\ inactivityTimeoutId' = Null
              /\ sessionExpiry' = NumberToString(now + SessionTimeout)]_vars

\* C12: the expiry written by a successful unlock or by a focus event is
\* now + the sessionTimeout of the settings record, and the inactivity
\* timeout armed by a blur is due the inactivityTimeout of the settings
\* record from now (the defaults while no record is stored).
C12_TimeoutsFromSettings ==
    [][/\ (lastEvent' = "unlock_return" /\ unlockResult')
              => sessionExpiry' = NumberToString(now + getSettings.sessionTimeout)
       /\ (lastEvent' = "focus" /\ sessionExpiry' # sessionExpiry)
              => sessionExpiry' = NumberToString(now + getSettings.sessionTimeout)
       /\ (lastEvent' = "blur" /\ inactivityTimeoutId' # Null)
              => inactivityTimeoutId'.due = now + getSettings.inactivityTimeout]_vars

\* C13: an updateSettings call whose argument fails validateSettings is
\* rejected, and the stored settings record, when there is one, passes
\* validateSettings.
C13_OutOfRangeRejected ==
    /\ (lastEvent = "settings_return" /\ ~validateSettings(setArgs).isValid)
           => ~setResult.ok
    /\ settingsRecord # Absent => validateSettings(settingsRecord).isValid

\* The key derived from the vault's passphrase and its persisted salt.
VaultKey == DeriveKey(createdPass, Atob(settingsStore["encryption_salt"]))

\* C14: at every step the content of every record of the scripts store
\* decrypts under the key of the vault's passphrase and salt, and the
\* content of a record the step wrote decrypts to the content of the
\* document the save or update resolved with.
C14_StoreHoldsCiphertextOfLastWrite ==
    [][\A id \in DOMAIN scriptsStore' :
           LET decrypted == DecryptWithKey(scriptsStore'[id].content, VaultKey)
               written == id \notin DOMAIN scriptsStore
                              \/ scriptsStore'[id] # scriptsStore[id]
           IN  /\ decrypted.ok
               /\ written => /\ docResult'.ok
                             /\ decrypted.value = docResult'.value.content]_vars

\* C15: a saveScript called with the key live is not refused; it gives the
\* document an id that no stored record has and createdAt = updatedAt = the
\* time of the call; when it resolves, the store has gained exactly the
\* record of that id, whose content decrypts under the key that was live at
\* the call to the content given, every other record is as it was, and the
\* result is the document with the content in plain text.
C15_SaveAddsOneFreshRecord ==
    [][/\ (docPc = "idle" /\ docArgs'.op = "saveScript" /\ isUnlocked)
              => /\ docPc' = "save_encrypt"
                 /\ docLocal'.script.id \notin DOMAIN scriptsStore
                 /\ docLocal'.script.createdAt = now
                 /\ docLocal'.script.updatedAt = now
                 /\ docLocal'.key = encryptionKey
       /\ (lastEvent' = "doc_return" /\ docResult'.op = "saveScript" /\ docResult'.ok)
              => LET doc == docResult'.value
                     record == scriptsStore'[doc.id]
                 IN  /\ doc.id \notin DOMAIN scriptsStore
                     /\ DOMAIN scriptsStore' = DOMAIN scriptsStore \cup {doc.id}
                     /\ \A id \in DOMAIN scriptsStore : scriptsStore'[id] = scriptsStore[id]
                     /\ doc = Merge(docArgs.input,
                                    [id |-> doc.id, createdAt |-> docLocal.script.createdAt,
                                     updatedAt |-> docLocal.script.createdAt])
                     /\ record = Merge(doc, [content |-> record.content])
                     /\ DecryptWithKey(record.content, docLocal.key)
                            = [ok |-> TRUE, value |-> doc.content]]_vars

\* A second saveScript has resolved while the first document is stored.
C15_Witness ==
    /\ lastEvent = "doc_return"
    /\ docResult.op = "saveScript"
    /\ docResult.ok
    /\ docResult.value.id = 2
    /\ DOMAIN scriptsStore = {1, 2}

\* C16: when an updateScript(id, updates) resolves, whatever fields updates
\* carries, the store has the same ids as before, every record but the one
\* keyed by id is as it was, and that record has kept its id and createdAt.
C16_IdentifierImmutable ==
    [][(lastEvent' = "doc_return" /\ docResult'.op = "updateScript" /\ docResult'.ok)
           => /\ DOMAIN scriptsStore' = DOMAIN scriptsStore
              /\ \A id \in DOMAIN scriptsStore \ {docArgs.id} :
                     scriptsStore'[id] = scriptsStore[id]
              /\ docArgs.id \in DOMAIN scriptsStore
              /\ scriptsStore'[docArgs.id].id = docArgs.id
              /\ scriptsStore'[docArgs.id].createdAt = scriptsStore[docArgs.id].createdAt]_vars

\* C17: when an updateScript(id, updates) whose updates carry no id resolves,
\* the stored updatedAt of the document is strictly greater than it was
\* before.
C17_UpdatedAtStrictlyIncreases ==
    [][(/\ lastEvent' = "doc_return" /\ docResult'.op = "updateScript" /\ docResult'.ok
        /\ "id" \notin DOMAIN docArgs.input)
           => scriptsStore'[docArgs.id].updatedAt > scriptsStore[docArgs.id].updatedAt]_vars

\* C18: when an updateScript(id, updates) on a stored document resolves, its
\* result is the stored document in plain text with the fields of updates
\* laid over it and a new updatedAt, and that result, its content encrypted
\* again, is the record persisted under the result's id.  An updateScript
\* called with the key live on an id that has no record is rejected with
\* 'Script not found' (or the storage's own error) and the store is as it
\* was.
C18_UpdateMergesOrNotFound ==
    [][(lastEvent' = "doc_return" /\ docResult'.op = "updateScript")
           => /\ docResult'.ok
                  => /\ docArgs'.id \in DOMAIN scriptsStore
                     /\ LET old == scriptsStore[docArgs'.id]
                            plain == DecryptWithKey(old.content, VaultKey)
                            doc == docResult'.value
                            record == scriptsStore'[doc.id]
                        IN  /\ plain.ok
                            /\ doc = Merge(Merge(Merge(old, [content |-> plain.value]),
                                                 docArgs'.input),
                                           [updatedAt |-> doc.updatedAt])
                            /\ \A k \in DOMAIN old \ (DOMAIN docArgs'.input
                                                      \cup {"updatedAt", "content"}) :
                                   doc[k] = old[k]
                            /\ \A k \in DOMAIN docArgs'.input : doc[k] = docArgs'.input[k]
                            /\ record = Merge(doc, [content |-> record.content])
                            /\ DecryptWithKey(record.content, VaultKey)
                                   = [ok |-> TRUE, value |-> doc.content]
              /\ (docArgs'.id \notin DOMAIN scriptsStore /\ docArgs'.keyLive)
                  => /\ ~docResult'.ok
                     /\ docResult'.error \in {NotFound, StorageError}
                     /\ scriptsStore' = scriptsStore]_vars

\* An updateScript that gave new content has resolved, after the clock moved.
C18_Witness ==
    /\ lastEvent = "doc_return"
    /\ docResult.op = "updateScript"
    /\ docResult.ok
    /\ docArgs.input = [content |-> <<"B">>]
    /\ docResult.value.content = <<"B">>
    /\ DecryptWithKey(scriptsStore[docArgs.id].content, VaultKey).value = <<"B">>
    /\ scriptsStore[docArgs.id].updatedAt > scriptsStore[docArgs.id].createdAt

\* C19: a getScript(id) that resolves null found no record with that id, and
\* a getScript that found no record resolves null; a getScript that found a
\* record whose content does not decrypt under the key is rejected with the
\* decryption error, and one that resolves with a document gives the record
\* with its whole content in plain text.
C19_GetNullIffAbsent ==
    [][(lastEvent' = "doc_return" /\ docResult'.op = "getScript")
           => LET id == docArgs'.id
                  result == docResult'
              IN  /\ (result.ok /\ result.value = Null) => id \notin DOMAIN scriptsStore
                  /\ (docPc = "read_get" /\ id \notin DOMAIN scriptsStore
                          /\ result.error # StorageError)
                         => result.ok /\ result.value = Null
                  /\ (docPc = "read_decrypt" /\ result.error # StorageError)
                         => LET record == scriptsStore[id]
                                decrypted == DecryptWithKey(record.content, docLocal.key)
                            IN  /\ id \in DOMAIN scriptsStore
                                /\ ~decrypted.ok
                                       => ~result.ok /\ result.error = DecryptError
                                /\ decrypted.ok
                                       => /\ result.ok
                                          /\ result.value
                                                 = Merge(record, [content |-> decrypted.value])
                                          /\ \E script \in NewScripts \cup Updates :
                                                 /\ "content" \in DOMAIN script
                                                 /\ result.value.content = script.content]_vars

\* A getScript found a record whose content does not decrypt under the live
\* key, and was rejected.
C19_Witness ==
    /\ lastEvent = "doc_return"
    /\ docResult.op = "getScript"
    /\ docResult.error = DecryptError
    /\ docArgs.id \in DOMAIN scriptsStore
    /\ encryptionKey # Null

\* C20: when getAllScripts resolves, its result lists every record of the
\* store exactly once, each with its content in plain text, and no document
\* of the list has a smaller updatedAt than one listed after it (so of two
\* documents the one updated later comes first).
C20_GetAllNewestFirst ==
    [][(lastEvent' = "doc_return" /\ docResult'.op = "getAllScripts" /\ docResult'.ok)
           => LET list == docResult'.value
              IN  /\ Len(list) = Cardinality(DOMAIN scriptsStore)
                  /\ \A id \in DOMAIN scriptsStore :
                         \E i \in DOMAIN list : list[i].id = id
                  /\ \A i \in DOMAIN list :
                         LET record == scriptsStore[list[i].id]
                             decrypted == DecryptWithKey(record.content, VaultKey)
                         IN  /\ decrypted.ok
                             /\ list[i] = Merge(record, [content |-> decrypted.value])
                  /\ \A i, j \in DOMAIN list :
                         i < j => list[i].updatedAt >= list[j].updatedAt]_vars

\* getAllScripts has resolved with two documents, the one saved second and
\* updated later first.
C20_Witness ==
    /\ lastEvent = "doc_return"
    /\ docResult.op = "getAllScripts"
    /\ docResult.ok
    /\ Len(docResult.value) = 2
    /\ docResult.value[1].id = 2
    /\ docResult.value[2].id = 1
    /\ docResult.value[1].updatedAt > docResult.value[2].updatedAt

\* C21: a deleteScript(id) called with the key live is accepted, and fails
\* only on the storage's own error; when it resolves, the store is the store
\* before without a record of that id: no record has the id (a getScript of
\* an id without record resolves null), every other record is as it was, and
\* with no record of the id before (never stored, or deleted already) the
\* store is unchanged.
C21_DeleteUnconditionalIdempotent ==
    [][/\ (lastEvent' = "doc_return" /\ docResult'.op = "deleteScript" /\ docArgs'.keyLive)
              => /\ docResult'.ok \/ docResult'.error = StorageError
                 /\ docResult'.ok
                        => /\ docArgs'.id \notin DOMAIN scriptsStore'
                           /\ DOMAIN scriptsStore' = DOMAIN scriptsStore \ {docArgs'.id}
                           /\ \A id \in DOMAIN scriptsStore' :
                                  scriptsStore'[id] = scriptsStore[id]
                           /\ docArgs'.id \notin DOMAIN scriptsStore
                                  => scriptsStore' = scriptsStore
                 /\ ~docResult'.ok => scriptsStore' = scriptsStore
       /\ (/\ lastEvent' = "doc_return" /\ docResult'.op = "getScript"
           /\ docPc = "read_get" /\ docArgs'.id \notin DOMAIN scriptsStore
           /\ docResult'.error # StorageError)
              => docResult'.ok /\ docResult'.value = Null]_vars

\* A deleteScript of the first document has resolved with the key live and
\* left the second document in the store.
C21_Witness ==
    /\ lastEvent = "doc_return"
    /\ docResult.op = "deleteScript"
    /\ docResult.ok
    /\ docArgs.keyLive
    /\ docArgs.id = 1
    /\ DOMAIN scriptsStore = {2}

\* C22: decryptWithKey of a blob as encryptWithKey returned it, under the key
\* it was encrypted with, resolves with the plaintext that was encrypted.
C22_RoundTrip ==
    (crypto.result # Null /\ crypto.change = "none" /\ crypto.usedKey = crypto.key)
        => crypto.result.ok /\ crypto.result.value = crypto.data

\* C23: decryptWithKey of a blob under another key than it was encrypted
\* with, or of a blob that was changed, cut or made malformed, fails with
\* Error('Invalid key or corrupted data').
C23_DecryptFailsTyped ==
    (crypto.result # Null /\ (crypto.change # "none" \/ crypto.usedKey # crypto.key))
        => ~crypto.result.ok /\ crypto.result.value = DecryptError

\* C24: a returning-user unlock that fails because no salt is stored, because
\* no token is stored or because the token does not validate returns false
\* and leaves one and the same session state: no key, no key salt, the
\* database open, and the stores, the persisted expiry, the timers and the
\* listeners as they were.
C24_FailedUnlockSameOutcome ==
    [][(/\ unlockPc \in {"get_salt", "validate_get", "validate_decrypt"}
        /\ ~unlockArgs.isFirstTime
        /\ lastEvent' = "unlock_return"
        /\ ~unlockDisturbed'
        /\ ~unlockResult')
           => /\ encryptionKey' = Null
              /\ keySalt' = Null
              /\ db'
              /\ UNCHANGED <<settingsStore, sessionExpiry, sessionCheckInterval,
                             inactivityTimeoutId, boundFocusHandler, boundBlurHandler,
                             pageVars, scriptsStore>>]_vars

\* A returning-user unlock has failed on a vault that holds a salt and no
\* token (a first-time setup was cut short after storeSalt).
C24_Witness ==
    /\ lastEvent = "unlock_return"
    /\ unlockPc = "idle"
    /\ ~unlockArgs.isFirstTime
    /\ unlockArgs.passphrase # Null
    /\ ~unlockResult
    /\ ~unlockDisturbed
    /\ settingsStore["encryption_salt"] # Absent
    /\ settingsStore["validation_token"] = Absent

\* C25: whenever hasExistingVault() returns to the unlock screen, it has
\* returned true exactly when the settings store holds a validation_token
\* record (the screen keeps the negation as isFirstTime).
C25_HasVaultIffToken ==
    [][lastEvent' = "check_vault"
           => (~isFirstTime' <=> settingsStore["validation_token"] # Absent)]_vars

\* hasExistingVault() has returned false on a vault that holds a salt and no
\* token.
C25_Witness ==
    /\ lastEvent = "check_vault"
    /\ isFirstTime
    /\ settingsStore["encryption_salt"] # Absent
    /\ settingsStore["validation_token"] = Absent

\* C26: a getSettings() that finds no settings record resolves with the
\* defaults, and a settings record with the defaults is in the store
\* afterwards.
C26_SettingsCreatedOnFirstRead ==
    [][(lastEvent' = "settings_got" /\ setPc = "read" /\ settingsRecord = Absent
        /\ setResult'.ok)
           => /\ setResult'.value = DefaultSettings
              /\ settingsRecord' = DefaultSettings]_vars

\* C27: the step in which an unlock returns true, and a focus event that
\* comes while the session is Unlocked, set the persisted expiry to the
\* time of the step plus the session timeout; the step in which an unlock
\* returns false, and a blur event, leave the persisted expiry as it was.
C27_ExpiryWrittenOnUnlockAndFocus ==
    [][/\ (lastEvent' = "unlock_return" /\ unlockResult')
              => sessionExpiry' = NumberToString(now + SessionTimeout)
       /\ (lastEvent' = "focus" /\ Unlocked)
              => sessionExpiry' = NumberToString(now + SessionTimeout)
       /\ (lastEvent' = "unlock_return" /\ ~unlockResult')
              => sessionExpiry' = sessionExpiry
       /\ lastEvent' = "blur" => sessionExpiry' = sessionExpiry]_vars

\* A focus event has moved the expiry of an Unlocked session that was
\* unlocked at an earlier time.
C27_Witness ==
    /\ lastEvent = "focus"
    /\ Unlocked
    /\ now > 0
    /\ sessionExpiry = NumberToString(now + SessionTimeout)

\* C28: whatever unlock and lock calls came before, a step in which lock()
\* runs (called directly, by the session check or by the inactivity
\* callback) leaves no session-check interval running, no inactivity timeout
\* pending and no focus or blur listener registered; and an unlock that
\* returns true after it starts its session with one interval and one
\* listener pair, its own.
C28_TimersCancelledAsUnit ==
    [][/\ (\/ lastEvent' = "lock"
           \/ lastEvent' = "session_check" /\ SessionExpired(sessionExpiry, now)
           \/ lastEvent' = "inactivity_timeout" /\ InactivityLocks(hasFocus))
              => /\ liveIntervals' = 0
                 /\ pendingTimeouts' = {}
                 /\ focusListeners' = 0
                 /\ blurListeners' = 0
       /\ (lastEvent' = "unlock_return" /\ unlockResult' /\ reloadPending)
              => /\ liveIntervals' = 1
                 /\ focusListeners' = 1
                 /\ blurListeners' = 1]_vars

\* C29: when getAllScripts settles and the store holds a record whose
\* content does not decrypt under the key the call used, the call is
\* rejected with an error and hands back no document, whatever the other
\* records are.
C29_GetAllFailsFast ==
    [][(/\ lastEvent' = "doc_return"
        /\ docResult'.op = "getAllScripts"
        /\ docPc = "all_decrypt"
        /\ \E id \in DOMAIN scriptsStore :
               ~DecryptWithKey(scriptsStore[id].content, docLocal.key).ok)
           => /\ ~docResult'.ok
              /\ docResult'.error \in {DecryptError, StorageError}
              /\ docResult'.value = Null]_vars

\* getAllScripts was rejected by the cipher with the vault's key live, over
\* a store of two records of which one decrypts under that key and the other
\* does not.
C29_Witness ==
    /\ lastEvent = "doc_return"
    /\ docResult.op = "getAllScripts"
    /\ ~docResult.ok
    /\ docResult.error = DecryptError
    /\ encryptionKey # Null
    /\ encryptionKey = VaultKey
    /\ \E id \in DOMAIN scriptsStore :
           DecryptWithKey(scriptsStore[id].content, encryptionKey).ok
    /\ \E id \in DOMAIN scriptsStore :
           ~DecryptWithKey(scriptsStore[id].content, encryptionKey).ok

\* C30: in the state StorageProvider.lock() leaves, isUnlocked is false,
\* scripts is empty and currentScript and settings are null; and from then
\* until an unlock succeeds (while isUnlocked is false) scripts stays empty
\* and currentScript null: no continuation of a provider call that was in
\* flight puts a decrypted document back.
C30_LockResetsContext ==
    context # Null
        => /\ lastEvent = "provider_lock"
                  => /\ screenMounted
                     /\ context.scripts = << >>
                     /\ context.currentScript = Null
                     /\ context.settings = Null
           /\ screenMounted
                  => /\ context.scripts = << >>
                     /\ context.currentScript = Null

\* C31: while an unlock call made on a locked session is validating its
\* passphrase against the stored token, isUnlocked() is false, and a script
\* operation called then is refused with 'Database not unlocked'.
C31_UnlockedOnlyAfterValidation ==
    [][/\ (unlockPc' \in {"validate_get", "validate_decrypt"} /\ unlockArgs'.locked)
              => encryptionKey' = Null
       /\ (/\ unlockPc \in {"validate_get", "validate_decrypt"}
           /\ unlockArgs.locked
           /\ docPc = "idle"
           /\ lastEvent' \in {"doc_step", "doc_return"})
              => /\ lastEvent' = "doc_return"
                 /\ ~docResult'.ok
                 /\ docResult'.error = NotUnlocked]_vars

\* C32: whenever the session is Unlocked (a key is live that no unlock
\* call has yet to confirm), a session expiry is persisted.
C32_ExpiryPersistedWhileUnlocked ==
    Unlocked => sessionExpiry # Absent

\* C33: a step that writes a record to the scripts store (a new record, or
\* a record changed) is taken with the key live: none is written after
\* lock() and before the next unlock.
C33_NoWriteWhileLocked ==
    [][(\E id \in DOMAIN scriptsStore' :
            \/ id \notin DOMAIN scriptsStore
            \/ scriptsStore'[id] # scriptsStore[id])
           => encryptionKey # Null]_vars

\* C34: in the state the return of the provider's unlock leads to, its
\* result is true exactly when the context's isUnlocked is true and the
\* key is live; and when the result is false, isUnlocked is false and no
\* key is live.
C34_UnlockResultAgreesWithState ==
    [][(/\ context # Null
        /\ providerCall.op = "unlock"
        /\ providerCall'.op = "none"
        /\ lastEvent' \in {"unlock_return", "settings_got", "settings_return"})
           => /\ providerCall'.result <=> (~screenMounted' /\ encryptionKey' # Null)
              /\ ~providerCall'.result
                     => (screenMounted' /\ encryptionKey' = Null)]_vars

\* The stored record of id holds, in every field `updates` names, the value
\* `updates` gave it.
Carries(id, updates) ==
    /\ id \in DOMAIN scriptsStore
    /\ \A f \in DOMAIN updates :
           f \in DOMAIN scriptsStore[id] /\ scriptsStore[id][f] = updates[f]

\* Two updateScript calls of the teleprompter on one document, over
\* disjoint fields, have both completed.
BothUpdatesDone(c1, c2) ==
    /\ c1 # c2
    /\ teleprompter.calls[c1].id = teleprompter.calls[c2].id
    /\ DOMAIN teleprompter.calls[c1].updates \cap DOMAIN teleprompter.calls[c2].updates = {}
    /\ teleprompter.calls[c1].pc = "done"
    /\ teleprompter.calls[c2].pc = "done"

\* C35: when two updateScript calls on the same document with disjoint
\* field sets have both completed successfully, in any interleaving of
\* their read and write steps, the stored document carries both changes.
C35_NoLostUpdate ==
    teleprompter # Null =>
        \A c1, c2 \in DOMAIN teleprompter.calls :
            BothUpdatesDone(c1, c2) =>
                /\ Carries(teleprompter.calls[c1].id, teleprompter.calls[c1].updates)
                /\ Carries(teleprompter.calls[c1].id, teleprompter.calls[c2].updates)

\* The teleprompter is quiet: no debounce timer is pending and every
\* updateScript call it made has completed.
TeleprompterQuiet ==
    /\ teleprompter # Null
    /\ teleprompter.timers = << >>
    /\ \A c \in DOMAIN teleprompter.calls : teleprompter.calls[c].pc = "done"

\* C36: once the debounce delay has passed after the last
\* updateScriptSetting call of the debounced teleprompter and the calls it
\* started have completed, the stored document equals the teleprompter's
\* local script in every field that was changed.
C36_ChangesPersisted ==
    (TeleprompterQuiet /\ teleprompter.debounced) =>
        /\ teleprompter.script.id \in DOMAIN scriptsStore
        /\ \A f \in teleprompter.changed :
               /\ f \in DOMAIN scriptsStore[teleprompter.script.id]
               /\ scriptsStore[teleprompter.script.id][f] = teleprompter.script[f]


\* A recorder is recording after the step that was not before it: one that
\* was started again, or a new one.
RecordingStarted ==
    \E r \in DOMAIN voice'.recorders :
        /\ voice'.recorders[r].state = "recording"
        /\ r \in DOMAIN voice.recorders => voice.recorders[r].state # "recording"

\* C37: after stopListening() was called on a listening service, and until
\* the next startListening call, the service is not listening, the
\* recording interval is cleared, the command callback is null, and no
\* recording is started.
C37_StoppedStaysStopped ==
    [][voice'.stopped = "listening"
           => /\ ~voice'.isListening
              /\ voice'.recordingInterval = 0
              /\ ~voice'.onCommandCallback
              /\ ~RecordingStarted]_vars

\* C38: a startListening call goes on to the microphone and to recording
\* only once the worker has reported 'ready', and a load error fails every
\* call that was pending.
C38_RecordingOnlyWhenReady ==
    /\ (\E c \in DOMAIN voice.calls : voice.calls[c] \in {"media", "done"})
           => voice.isReady
    /\ voice.worker = "failed" => \A c \in DOMAIN voice.calls : voice.calls[c] # "media"

====
